---------------------------- MODULE Spec2Model ----------------------------
(***************************************************************************)
(* Itinerary backend (src/index.js): session store, user administration,  *)
(* jam visibility, project submission, upvote ledger and the community    *)
(* winner resolver, modelled as a state machine.                          *)
(*                                                                         *)
(* Every request handler is one action (requests do not overlap here).    *)
(* MongoDB collections are sequences of documents in insertion order.     *)
(* `resp` holds the request and the response of the handler that ran      *)
(* last; every handler sets it.  status = 0 means that no response was    *)
(* sent; threw = TRUE means the handler ended in an unhandled exception.  *)
(***************************************************************************)
EXTENDS Integers, Sequences, FiniteSets, TLC

VARIABLES
    now,          \* the wall clock read by `new Date()`
    users,        \* the `users` collection, keyed by name
    sessions,     \* the module-level array `sessions` (in-memory index)
    dbSessions,   \* the `sessions` collection (durable storage)
    nextToken,    \* source of fresh values for generateToken()
    jams,         \* the `jams` collection, keyed by slug
    managers,     \* the `managers` collection
    projects,     \* the `projects` collection
    upvotes,      \* the `upvotes` collection
    resp,         \* request and response of the last handler
    issued,       \* history: the sessions /auth/handle has issued, as issued
    exchanged,    \* history: per one-time token, how often /auth/info answered 200 for it
    pending       \* the handlers suspended at an `await`, with their local variables

vars == <<now, users, sessions, dbSessions, nextToken, jams, managers, projects, upvotes, resp, issued,
          exchanged, pending>>

---------------------------------------------------------------------------
(* Bounds of the model *)

MaxLogins == 1
MaxTime == 3
MaxUpvotes == 6
MaxProjectDocs == 2
MaxTally == 3
MaxRequests == 3

(* Program constants *)

MAX_UPVOTES_PER_JAM == 3

Names == {"root", "ann"}
Slugs == {"j1", "j2"}

\* a request that carries no token (no Authorization header, no ?token=)
NoToken == 0
\* JavaScript null, the value of a consumed oneTimeToken
Null == -1
\* a missing date field (undefined)
NoDate == -1
\* a missing :project parameter / body field
NoProject == 0

Tokens == 1..(2 * MaxLogins)
\* a token value that generateToken() never returned
BogusToken == 2 * MaxLogins + 1
\* the token of the session that durable storage holds at process start
RootToken == 2 * MaxLogins + 2
Times == 0..MaxTime
\* project ids: one more than a user may upvote in one jam
ProjectIds == 1..(MAX_UPVOTES_PER_JAM + 1)

NoBody == [none |-> TRUE]

\* no handler is suspended
NoPending == <<>>

\* res.status(s).json({error: {code: c}}) and the like
Response(op, req, status, code, body, threw) ==
    [op |-> op, req |-> req, status |-> status, code |-> code, body |-> body, threw |-> threw]

---------------------------------------------------------------------------
(* Collection helpers (MongoDB semantics on sequences of documents) *)

\* A filter is evaluated to `hits`, the set of positions of the documents
\* of the collection that match it.

\* position of the first matching document, 0 when there is none
FirstIndex(hits) ==
    IF hits = {} THEN 0 ELSE CHOOSE i \in hits : \A k \in hits : i <= k

RemoveAt(docs, i) ==
    [k \in 1..(Len(docs) - 1) |-> IF k < i THEN docs[k] ELSE docs[k + 1]]

\* Model.deleteOne(filter): removes the first matching document, if any
DeleteOne(docs, hits) ==
    IF hits = {} THEN docs ELSE RemoveAt(docs, FirstIndex(hits))

\* Model.deleteMany(filter)
RECURSIVE DeleteMany(_, _)
DeleteMany(docs, hits) ==
    IF hits = {} THEN docs
    ELSE LET last == CHOOSE i \in hits : \A k \in hits : k <= i
         IN  DeleteMany(RemoveAt(docs, last), hits \ {last})

\* Model.countDocuments(filter)
CountDocuments(hits) == Cardinality(hits)

---------------------------------------------------------------------------
(* Users *)

NoUser == [present |-> FALSE, admin |-> FALSE, banned |-> FALSE]

\* getUserData(name): the user document, or null (present = FALSE)
getUserData(name) == users[name]

\* user.isManager(jam)
isManager(name, jam) ==
    CountDocuments({i \in DOMAIN managers : managers[i].jam = jam /\ managers[i].name = name}) > 0

---------------------------------------------------------------------------
(* Session management *)

findSessionIndex(token) == FirstIndex({i \in DOMAIN sessions : sessions[i].token = token})

\* findSession(token) is defined (truthy)
findSession(token) == findSessionIndex(token) # 0

sessionName(token) == sessions[findSessionIndex(token)].name

findSessionByOneTimeTokenIndex(oneTimeToken) ==
    FirstIndex({i \in DOMAIN sessions : sessions[i].oneTimeToken = oneTimeToken})

\* addSession: the in-memory array after the push
addSessionMemory(token, name, oneTimeToken) ==
    Append(sessions, [name |-> name, token |-> token, oneTimeToken |-> oneTimeToken])

\* addSession: the collection after Sessions.create
addSessionDurable(token, name, oneTimeToken) ==
    Append(dbSessions, [name |-> name, token |-> token, oneTimeToken |-> oneTimeToken])

\* removeSession: the in-memory array after the filter
removeSessionMemory(token) ==
    DeleteMany(sessions, {i \in DOMAIN sessions : sessions[i].token = token})

\* (mutation for C31: the row is looked up by the name of the session's user)
removeSessionDurable_byName(token) ==
    DeleteOne(dbSessions, {i \in DOMAIN dbSessions :
                              \E k \in DOMAIN sessions :
                                 sessions[k].token = token /\ dbSessions[i].name = sessions[k].name})

\* removeSession: the collection after Sessions.deleteOne({token})
removeSessionDurable(token) ==
    DeleteOne(dbSessions, {i \in DOMAIN dbSessions : dbSessions[i].token = token})

\* (mutation for C1: the handler forgets to clear the in-memory one-time token)
clearOneTimeTokenMemory_forgotten(i) == sessions

\* /auth/info: session.oneTimeToken = null on the found in-memory session
clearOneTimeTokenMemory(i) == [sessions EXCEPT ![i].oneTimeToken = Null]

\* /auth/info: Sessions.updateOne({oneTimeToken}, {$set: {oneTimeToken: null}})
clearOneTimeTokenDurable(oneTimeToken) ==
    LET hits == {i \in DOMAIN dbSessions : dbSessions[i].oneTimeToken = oneTimeToken}
    IN  IF hits = {} THEN dbSessions
        ELSE [dbSessions EXCEPT ![FirstIndex(hits)].oneTimeToken = Null]

\* PUT /api/user/:name, ban branch: Sessions.deleteOne({name: user.name})
banDeleteSessions(name) ==
    DeleteOne(dbSessions, {i \in DOMAIN dbSessions : dbSessions[i].name = name})

UnchangedJamData == UNCHANGED <<pending, now, jams, managers, projects, upvotes>>

---------------------------------------------------------------------------
(* Authentication endpoints *)

\* GET /auth/handle.  outcome: what the identity provider and the profile
\* lookup answer for the private code ("found": the code is valid and the
\* profile lookup returns `username`).
AuthOutcomes == {"verifierDown", "invalid", "profileDown", "unknown", "found"}

\* (mutation for C11: the banned flag of the resolved user is not looked at)
loginRefused_never(foundUser) == FALSE

\* if (!foundUser.banned) ... else: the resolved user is banned
loginRefused(foundUser) == foundUser.present /\ foundUser.banned

AuthHandle(outcome, username) ==
    LET req == [outcome |-> outcome]
        foundUser == getUserData(username)
        token == nextToken
        oneTimeToken == nextToken + 1
        Refuse(status, code, threw) ==
            /\ resp' = Response("authHandle", req, status, code, NoBody, threw)
            /\ UNCHANGED <<users, sessions, dbSessions, nextToken, issued>>
    IN  /\ UnchangedJamData
        /\ exchanged' = exchanged
        /\ IF outcome = "verifierDown"
           THEN Refuse(302, "loginError1", TRUE)   \* .catch redirects, then authResponse.json() throws
           ELSE IF outcome = "invalid" THEN Refuse(302, "loginError0", FALSE)
           ELSE IF outcome = "profileDown" THEN Refuse(302, "loginError1", TRUE)
           ELSE IF outcome = "unknown" THEN Refuse(404, "userNotFound", FALSE)
           ELSE IF loginRefused(foundUser) THEN Refuse(302, "loginError2", FALSE)
           ELSE /\ oneTimeToken <= 2 * MaxLogins
                /\ users' = IF foundUser.present THEN users
                            ELSE [users EXCEPT ![username] = [present |-> TRUE, admin |-> FALSE, banned |-> FALSE]]
                /\ sessions' = addSessionMemory(token, username, oneTimeToken)
                /\ dbSessions' = addSessionDurable(token, username, oneTimeToken)
                /\ nextToken' = nextToken + 2
                /\ issued' = issued \cup {[name |-> username, token |-> token, oneTimeToken |-> oneTimeToken]}
                /\ resp' = Response("authHandle", req, 302, "confirmLogin",
                                    [name |-> username, token |-> oneTimeToken], FALSE)

\* GET /auth/info?token=
AuthInfo(token) ==
    LET req == [token |-> token]
        i == findSessionByOneTimeTokenIndex(token)
    IN  /\ UnchangedJamData
        /\ UNCHANGED <<users, nextToken, issued>>
        /\ IF token = NoToken
           THEN /\ resp' = Response("authInfo", req, 400, "missingToken", NoBody, FALSE)
                /\ UNCHANGED <<sessions, dbSessions, exchanged>>
           ELSE IF i = 0
           THEN /\ resp' = Response("authInfo", req, 404, "noSession", NoBody, FALSE)
                /\ UNCHANGED <<sessions, dbSessions, exchanged>>
           ELSE /\ resp' = Response("authInfo", req, 200, "ok",
                                    [name |-> sessions[i].name, token |-> sessions[i].token], FALSE)
                /\ dbSessions' = clearOneTimeTokenDurable(token)
                /\ sessions' = clearOneTimeTokenMemory(i)
                /\ exchanged' = [exchanged EXCEPT ![token] = @ + 1]

\* POST /auth/remove?token=
AuthRemove(token) ==
    LET req == [token |-> token]
    IN  /\ UnchangedJamData
        /\ UNCHANGED <<users, nextToken, issued, exchanged>>
        /\ IF token = NoToken
           THEN /\ resp' = Response("authRemove", req, 400, "missingToken", NoBody, FALSE)
                /\ UNCHANGED <<sessions, dbSessions>>
           ELSE IF ~findSession(token)
           THEN /\ resp' = Response("authRemove", NoBody, 400, "alreadyInvalid", NoBody, FALSE)
                /\ UNCHANGED <<sessions, dbSessions>>
           ELSE /\ resp' = Response("authRemove", req, 200, "ok", [name |-> sessionName(token)], FALSE)
                /\ sessions' = removeSessionMemory(token)
                /\ dbSessions' = removeSessionDurable(token)

---------------------------------------------------------------------------
(* User management endpoints *)

\* PUT /api/user/:name with body {banned, admin}.  The body is read only on
\* the path of an admin updating an existing user; the profile lookup made
\* when the user has to be created answers "found", "unknown" or fails.
PutUserUpdate(name, byAdmin, banned, admin) ==
    /\ users' = IF byAdmin
                THEN [users EXCEPT ![name].banned = banned, ![name].admin = admin]
                ELSE users
    /\ dbSessions' = IF byAdmin /\ banned THEN banDeleteSessions(name) ELSE dbSessions
    /\ resp' = Response("putUser", [name |-> name, banned |-> banned], 200, "userUpdated",
                        [byAdmin |-> byAdmin], FALSE)

PutUser(auth, name) ==
    LET sessionUser == getUserData(sessionName(auth))
        user == getUserData(name)
        Reject(status, code, threw) ==
            /\ resp' = Response("putUser", NoBody, status, code, NoBody, threw)
            /\ UNCHANGED <<users, dbSessions>>
    IN  /\ UnchangedJamData
        /\ UNCHANGED <<sessions, nextToken, issued, exchanged>>
        /\ IF auth = NoToken THEN Reject(401, "needAuth", FALSE)
           ELSE IF ~findSession(auth) THEN Reject(403, "invalidAuth", FALSE)
           ELSE IF sessionName(auth) # name /\ ~sessionUser.present
           THEN Reject(0, "noResponse", TRUE)    \* sessionUser is null: reading .admin throws
           ELSE IF sessionName(auth) # name /\ ~sessionUser.admin
           THEN Reject(403, "notAdmin", FALSE)
           ELSE IF user.present
           THEN IF user.banned /\ ~sessionUser.admin
                THEN Reject(403, "banned", FALSE)
                ELSE IF sessionUser.admin
                THEN \E banned \in BOOLEAN, admin \in BOOLEAN : PutUserUpdate(name, TRUE, banned, admin)
                ELSE PutUserUpdate(name, FALSE, FALSE, FALSE)
           ELSE \E scratch \in {"found", "unknown", "down"} :
                  IF scratch = "down" THEN Reject(0, "noResponse", TRUE)
                  ELSE IF scratch = "unknown" THEN Reject(404, "userNotFound", FALSE)
                  ELSE /\ users' = [users EXCEPT ![name] = [present |-> TRUE, admin |-> FALSE, banned |-> FALSE]]
                       /\ dbSessions' = dbSessions
                       /\ resp' = Response("putUser", NoBody, 200, "userAdded", NoBody, FALSE)

\* DELETE /api/user/:name
DeleteUser(auth, name) ==
    LET req == [name |-> name]
        sessionUser == getUserData(sessionName(auth))
        Reject(status, code, threw) ==
            /\ resp' = Response("deleteUser", NoBody, status, code, NoBody, threw)
            /\ UNCHANGED <<users, dbSessions>>
    IN  /\ UnchangedJamData
        /\ UNCHANGED <<sessions, nextToken, issued, exchanged>>
        /\ IF auth = NoToken THEN Reject(401, "needAuth", FALSE)
           ELSE IF ~findSession(auth) THEN Reject(403, "invalidAuth", FALSE)
           ELSE IF ~sessionUser.present THEN Reject(0, "noResponse", TRUE)
           ELSE IF ~sessionUser.admin /\ sessionName(auth) # name
           THEN Reject(403, "insufficientPermissions", FALSE)
           ELSE IF ~getUserData(name).present THEN Reject(404, "userNotFound", FALSE)
           ELSE /\ dbSessions' = DeleteOne(dbSessions, {i \in DOMAIN dbSessions : dbSessions[i].name = name})
                /\ users' = [users EXCEPT ![name] = NoUser]
                /\ resp' = Response("deleteUser", req, 200, "ok", NoBody, FALSE)

---------------------------------------------------------------------------
(* The session and user-administration subsystem *)

NoJams == [s \in Slugs |-> [present |-> FALSE]]

InitResp == Response("start", NoBody, 0, "", NoBody, FALSE)

\* At process start the database holds one administrator and the session of
\* an earlier login of theirs, which the start-up load (sessions = await
\* Sessions.find({})) has copied into memory.
StoredSessions == <<[name |-> "root", token |-> RootToken, oneTimeToken |-> Null]>>

Init ==
    /\ now = 0
    /\ users = [n \in Names |-> IF n = "root"
                                THEN [present |-> TRUE, admin |-> TRUE, banned |-> FALSE]
                                ELSE NoUser]
    /\ sessions = StoredSessions
    /\ dbSessions = StoredSessions
    /\ nextToken = 1
    /\ jams = NoJams
    /\ managers = <<>>
    /\ projects = <<>>
    /\ upvotes = <<>>
    /\ resp = InitResp
    /\ pending = NoPending
    /\ issued = {}
    /\ exchanged = [t \in Tokens |-> 0]

\* generateToken() is called twice per login: first for the token, then for
\* the one-time token
IssuedTokens == {t \in 1..(nextToken - 1) : t % 2 = 1}
IssuedOneTimeTokens == {t \in 1..(nextToken - 1) : t % 2 = 0}

\* what a request can carry as its bearer token: nothing, a token issued so
\* far, or a value that is no session's token
AuthTokens == {NoToken, BogusToken, RootToken} \cup IssuedTokens

\* what /auth/info can be asked to exchange
ExchangeTokens == {NoToken, BogusToken} \cup IssuedOneTimeTokens

Next ==
    \/ \E o \in AuthOutcomes, n \in Names : AuthHandle(o, n)
    \/ \E t \in ExchangeTokens : AuthInfo(t)
    \/ \E t \in AuthTokens : AuthRemove(t)
    \/ \E t \in AuthTokens, n \in Names : PutUser(t, n)
    \/ \E t \in AuthTokens, n \in Names : DeleteUser(t, n)

Spec == Init /\ [][Next]_vars

---------------------------------------------------------------------------
(* Upvote ledger *)

\* countDocuments({jam, 'meta.upvotedBy': name})
upvotesInJamBy(jam, name) ==
    CountDocuments({i \in DOMAIN upvotes : upvotes[i].jam = jam /\ upvotes[i].upvotedBy = name})

\* (mutation for C3: the cap is compared with the wrong number)
tooManyUpvotes_offByOne(count) == count - MAX_UPVOTES_PER_JAM = 1

\* remainingUpvotes = upvotes - MAX_UPVOTES_PER_JAM; if (remainingUpvotes === 0)
tooManyUpvotes(count) == count - MAX_UPVOTES_PER_JAM = 0

\* countDocuments({project, jam, 'meta.upvotedBy': name}) > 0
upvoteAlreadyCast(jam, project, name) ==
    CountDocuments({i \in DOMAIN upvotes : /\ upvotes[i].project = project
                                            /\ upvotes[i].jam = jam
                                            /\ upvotes[i].upvotedBy = name}) > 0

\* PUT /api/jams/:jam/upvotes/:project?
CastUpvote(auth, jam, project) ==
    LET name == sessionName(auth)
        req == [name |-> name, jam |-> jam]
        Reject(r, status, code) ==
            /\ resp' = Response("castUpvote", r, status, code, NoBody, FALSE)
            /\ upvotes' = upvotes
    IN  /\ UNCHANGED <<pending, now, users, sessions, dbSessions, nextToken, jams, managers, projects, issued, exchanged>>
        /\ IF auth = NoToken THEN Reject(NoBody, 401, "needAuth")
           ELSE IF ~findSession(auth) THEN Reject(NoBody, 403, "invalidAuth")
           ELSE IF project = NoProject THEN Reject(NoBody, 400, "missingParameters")
           ELSE IF tooManyUpvotes(upvotesInJamBy(jam, name)) THEN Reject(req, 403, "tooManyUpvotes")
           ELSE IF upvoteAlreadyCast(jam, project, name) THEN Reject(req, 403, "alreadySubmitted")
           ELSE /\ Len(upvotes) < MaxUpvotes
                /\ upvotes' = Append(upvotes, [jam |-> jam, project |-> project, upvotedBy |-> name])
                /\ resp' = Response("castUpvote", req, 200, "ok", NoBody, FALSE)

\* DELETE /api/jams/:jam/upvotes/:project?
RevokeUpvote(auth, jam, project) ==
    LET name == sessionName(auth)
        \* if (!req.params.project) await Upvotes.deleteMany({jam})
        afterDeleteMany == IF project = NoProject
                           THEN DeleteMany(upvotes, {i \in DOMAIN upvotes : upvotes[i].jam = jam})
                           ELSE upvotes
        \* deleteOne({project, jam, 'meta.upvotedBy': session.name})
        mine == {i \in DOMAIN afterDeleteMany : /\ afterDeleteMany[i].project = project
                                                /\ afterDeleteMany[i].jam = jam
                                                /\ afterDeleteMany[i].upvotedBy = name}
        deletedCount == IF mine = {} THEN 0 ELSE 1
    IN  /\ UNCHANGED <<pending, now, users, sessions, dbSessions, nextToken, jams, managers, projects, issued, exchanged>>
        /\ IF auth = NoToken
           THEN /\ resp' = Response("revokeUpvote", NoBody, 401, "needAuth", NoBody, FALSE)
                /\ upvotes' = upvotes
           ELSE IF ~findSession(auth)
           THEN /\ resp' = Response("revokeUpvote", NoBody, 403, "invalidAuth", NoBody, FALSE)
                /\ upvotes' = upvotes
           ELSE /\ upvotes' = DeleteOne(afterDeleteMany, mine)
                /\ resp' = IF deletedCount > 0
                           THEN Response("revokeUpvote", NoBody, 200, "ok", NoBody, FALSE)
                           ELSE Response("revokeUpvote", NoBody, 404, "upvoteNeverCast", NoBody, FALSE)

\* the token of a second session that durable storage holds at process start
AnnToken == 2 * MaxLogins + 3

UpvoteSessions ==
    <<[name |-> "root", token |-> RootToken, oneTimeToken |-> Null],
      [name |-> "ann", token |-> AnnToken, oneTimeToken |-> Null]>>

\* The ledger is exercised on jam "j1" by two logged-in users; the store
\* already holds an upvote of each of them in another jam.
UpvoteInit ==
    /\ now = 0
    /\ users = [n \in Names |-> [present |-> TRUE, admin |-> n = "root", banned |-> FALSE]]
    /\ sessions = UpvoteSessions
    /\ dbSessions = UpvoteSessions
    /\ nextToken = 1
    /\ jams = NoJams
    /\ managers = <<>>
    /\ projects = <<>>
    /\ upvotes = <<[jam |-> "j2", project |-> 1, upvotedBy |-> "root"],
                   [jam |-> "j2", project |-> 1, upvotedBy |-> "ann"]>>
    /\ resp = InitResp
    /\ pending = NoPending
    /\ issued = {}
    /\ exchanged = [t \in Tokens |-> 0]

UpvoteTokens == {NoToken, BogusToken, RootToken, AnnToken}

UpvoteNext ==
    \/ \E t \in UpvoteTokens, p \in ProjectIds \cup {NoProject} : CastUpvote(t, "j1", p)
    \/ \E t \in UpvoteTokens, p \in ProjectIds \cup {NoProject} : RevokeUpvote(t, "j1", p)

SpecUpvotes == UpvoteInit /\ [][UpvoteNext]_vars

\* The ledger under user administration: the admin root updates ann (ban or
\* unban, promote or demote) while ann, whose session was stored at process
\* start, casts and revokes upvotes in jam "j1".
BanNext ==
    \/ PutUser(RootToken, "ann")
    \/ \E p \in 1..2 : CastUpvote(AnnToken, "j1", p)
    \/ \E p \in 1..2 : RevokeUpvote(AnnToken, "j1", p)

SpecBan == UpvoteInit /\ [][BanNext]_vars

\* C12: a cast or a revoke made with a session of a user whose banned flag
\* is set is rejected and leaves the upvotes as they were.
C12_BannedUserIsRejected ==
    [][\A i \in DOMAIN sessions, p \in 1..2 :
          (/\ users[sessions[i].name].present /\ users[sessions[i].name].banned
           /\ \/ CastUpvote(sessions[i].token, "j1", p)
              \/ RevokeUpvote(sessions[i].token, "j1", p))
          => (resp'.status # 200 /\ upvotes' = upvotes)]_vars

\* C16: a cast for a (jam, project, user) triple that is stored is answered
\* alreadySubmitted whatever the number of upvotes the user has in the jam,
\* and a cast for a triple that is not stored by a user with 3 upvotes in
\* the jam is answered tooManyUpvotes.
C16_DuplicateBeforeCap ==
    [][\A i \in DOMAIN sessions, p \in ProjectIds :
          CastUpvote(sessions[i].token, "j1", p)
          => /\ upvoteAlreadyCast("j1", p, sessions[i].name) => resp'.code = "alreadySubmitted"
             /\ (/\ ~upvoteAlreadyCast("j1", p, sessions[i].name)
                 /\ upvotesInJamBy("j1", sessions[i].name) = MAX_UPVOTES_PER_JAM)
                => resp'.code = "tooManyUpvotes"]_vars

\* C3: a cast that names a project, made with the session of a user who has
\* MAX_UPVOTES_PER_JAM (3) or more stored upvotes in the jam, is answered
\* tooManyUpvotes and leaves the upvotes collection unchanged.
C3_CapRejectsFurtherCasts ==
    [][(/\ resp'.op = "castUpvote"
        /\ resp'.code \in {"tooManyUpvotes", "alreadySubmitted", "ok"}
        /\ upvotesInJamBy(resp'.req.jam, resp'.req.name) >= MAX_UPVOTES_PER_JAM)
       => (resp'.code = "tooManyUpvotes" /\ upvotes' = upvotes)]_vars

\* a cast has been rejected for the cap while a user holds 3 upvotes in the
\* jam and another user holds fewer
C3_Witness ==
    /\ resp.op = "castUpvote" /\ resp.code = "tooManyUpvotes"
    /\ \E n \in Names : upvotesInJamBy("j1", n) = MAX_UPVOTES_PER_JAM
    /\ \E n \in Names : upvotesInJamBy("j1", n) \in 1..(MAX_UPVOTES_PER_JAM - 1)

---------------------------------------------------------------------------
(* Winner resolver *)

\* (mutation for C6: projects already flagged by the community are left out)
eligibleProjects_unflagged(jam) ==
    {i \in DOMAIN projects : /\ projects[i].jam = jam
                              /\ projects[i].selected # TRUE
                              /\ projects[i].selectedByTheCommunity # TRUE}

\* positions of the documents of Projects.find({jam, selected: {$ne: true}})
eligibleProjects(jam) ==
    {i \in DOMAIN projects : projects[i].jam = jam /\ projects[i].selected # TRUE}

\* upvotes.filter(({project}) => projects.some((e) => e.project === project)),
\* on the result of Upvotes.find({jam}): positions of the upvotes kept
eligibleUpvotes(jam) ==
    {k \in DOMAIN upvotes :
        /\ upvotes[k].jam = jam
        /\ \E i \in eligibleProjects(jam) : projects[i].project = upvotes[k].project}

\* getDateByProject(id): meta.submitted of the first eligible project with that id
getDateByProject(jam, id) ==
    projects[FirstIndex({i \in eligibleProjects(jam) : projects[i].project = id})].submitted

\* the entry of `tally` for one project: {project, count, date}
tallyOf(jam, id) ==
    [project |-> id,
     count |-> Cardinality({k \in eligibleUpvotes(jam) : upvotes[k].project = id}),
     date |-> getDateByProject(jam, id)]

\* Object.values(tally): the keys are project ids (integers), which a
\* JavaScript object enumerates in ascending order
RECURSIVE tallyValues(_, _)
tallyValues(jam, ids) ==
    IF ids = {} THEN <<>>
    ELSE LET least == CHOOSE p \in ids : \A q \in ids : p <= q
         IN  <<tallyOf(jam, least)>> \o tallyValues(jam, ids \ {least})

\* (mutation for C4: ties are broken towards the latest submission)
reduceStep_latest(tempWinner, currentTally) ==
    IF tempWinner.count < currentTally.count THEN currentTally
    ELSE IF tempWinner.count = currentTally.count
         THEN IF tempWinner.date < currentTally.date THEN currentTally ELSE tempWinner
         ELSE tempWinner

\* the callback of the reduce
reduceStep(tempWinner, currentTally) ==
    IF tempWinner.count < currentTally.count THEN currentTally
    ELSE IF tempWinner.count = currentTally.count
         THEN IF tempWinner.date > currentTally.date THEN currentTally ELSE tempWinner
         ELSE tempWinner

\* Array.prototype.reduce without an initial value
RECURSIVE reduceFrom(_, _, _)
reduceFrom(values, k, tempWinner) ==
    IF k > Len(values) THEN tempWinner
    ELSE reduceFrom(values, k + 1, reduceStep(tempWinner, values[k]))

winnerOf(jam) ==
    LET values == tallyValues(jam, {upvotes[k].project : k \in eligibleUpvotes(jam)})
    IN  reduceFrom(values, 2, values[1]).project

\* (mutation for C5: the flag of the other projects of the jam is not cleared)
writeWinner_noClear(jam, winner) ==
    LET first == FirstIndex({i \in DOMAIN projects : projects[i].jam = jam /\ projects[i].project = winner})
    IN  [i \in DOMAIN projects |->
            IF i = first THEN [projects[i] EXCEPT !.selectedByTheCommunity = TRUE] ELSE projects[i]]

\* updateMany({jam, project: {$ne: winner}}, {selectedByTheCommunity: false})
\* then updateOne({jam, project: winner}, {selectedByTheCommunity: true})
writeWinner(jam, winner) ==
    LET first == FirstIndex({i \in DOMAIN projects : projects[i].jam = jam /\ projects[i].project = winner})
    IN  [i \in DOMAIN projects |->
            IF projects[i].jam = jam /\ projects[i].project # winner
            THEN [projects[i] EXCEPT !.selectedByTheCommunity = FALSE]
            ELSE IF i = first
            THEN [projects[i] EXCEPT !.selectedByTheCommunity = TRUE]
            ELSE projects[i]]

\* (mutation for C30: the flags are left as they are when no upvote counts)
clearCommunityWinner_none(jam) == projects

\* updateMany({jam, selectedByTheCommunity: true}, {selectedByTheCommunity: false})
clearCommunityWinner(jam) ==
    [i \in DOMAIN projects |->
        IF projects[i].jam = jam /\ projects[i].selectedByTheCommunity = TRUE
        THEN [projects[i] EXCEPT !.selectedByTheCommunity = FALSE]
        ELSE projects[i]]

\* (mutation for C29: the resolver does not look at the end date)
computeCommunitySelectedWinner_anyDate(jam) ==
    IF ~jams[jam].present THEN [projects |-> projects, threw |-> FALSE]
    ELSE IF jams[jam].end = NoDate THEN [projects |-> projects, threw |-> TRUE]
    ELSE IF eligibleProjects(jam) = {} THEN [projects |-> projects, threw |-> FALSE]
    ELSE IF eligibleUpvotes(jam) = {} THEN [projects |-> clearCommunityWinner(jam), threw |-> FALSE]
    ELSE [projects |-> writeWinner(jam, winnerOf(jam)), threw |-> FALSE]

\* computeCommunitySelectedWinner(jam): the `projects` collection when the
\* function has returned, and whether it threw (toISOString of a missing date)
computeCommunitySelectedWinner(jam) ==
    IF ~jams[jam].present THEN [projects |-> projects, threw |-> FALSE]
    ELSE IF jams[jam].end = NoDate THEN [projects |-> projects, threw |-> TRUE]
    ELSE IF jams[jam].end > now THEN [projects |-> projects, threw |-> FALSE]
    ELSE IF eligibleProjects(jam) = {} THEN [projects |-> projects, threw |-> FALSE]
    ELSE IF eligibleUpvotes(jam) = {} THEN [projects |-> clearCommunityWinner(jam), threw |-> FALSE]
    ELSE [projects |-> writeWinner(jam, winnerOf(jam)), threw |-> FALSE]

\* GET /api/jams/:jam/winners/
GetWinners(jam) ==
    LET computed == computeCommunitySelectedWinner(jam)
        after == computed.projects
        winners == {after[i].project : i \in {i \in DOMAIN after :
                        after[i].jam = jam /\ (after[i].selected \/ after[i].selectedByTheCommunity)}}
    IN  /\ UNCHANGED <<pending, now, users, sessions, dbSessions, nextToken, jams, managers, upvotes, issued, exchanged>>
        /\ projects' = after
        /\ resp' = IF computed.threw
                   THEN Response("getWinners", [jam |-> jam], 0, "noResponse", NoBody, TRUE)
                   ELSE Response("getWinners", [jam |-> jam], 200, "ok", [winners |-> winners], FALSE)

\* The resolver is exercised on stored jams, projects and upvotes drawn from
\* bounded sets.  The clock reads 2.  Jam "j1" closed at 1; its projects have
\* distinct ids (at most MaxProjectDocs of them, stored by ascending or by
\* descending id), each submitted at 0 or 1 and with either winner flag or
\* none (selecting a winner by hand clears the community's flag); it holds two upvotes for a
\* project id that is not submitted to it, and at most MaxTally upvotes for
\* the submitted ids, in any storage order.  Jam "j2" closes at 3 and has one
\* flagged project with one upvote.
WithdrawnProject == MaxProjectDocs + 1

WinnerProjectDocs ==
    {d \in [jam : {"j1"}, project : 1..MaxProjectDocs, submitted : {0, 1}, submittedBy : {"ann"},
            selected : BOOLEAN, selectedByTheCommunity : BOOLEAN] :
        ~(d.selected /\ d.selectedByTheCommunity)}

WinnerProjectLists ==
    {s \in UNION {[1..n -> WinnerProjectDocs] : n \in 0..MaxProjectDocs} :
        \/ \A i, k \in DOMAIN s : i < k => s[i].project < s[k].project
        \/ \A i, k \in DOMAIN s : i < k => s[i].project > s[k].project}

\* the projects upvoted, in storage order; a project has at most one upvote
\* per user
WinnerVoteLists ==
    {s \in UNION {[1..n -> 1..MaxProjectDocs] : n \in 0..MaxTally} :
        \A p \in 1..MaxProjectDocs : Cardinality({k \in DOMAIN s : s[k] = p}) <= Cardinality(Names)}

WinnerVoteDocs(s) ==
    [k \in DOMAIN s |->
        [jam |-> "j1", project |-> s[k],
         upvotedBy |-> IF \E h \in 1..(k - 1) : s[h] = s[k] THEN "ann" ELSE "root"]]

WinnerInit ==
    /\ now = 2
    /\ users = [n \in Names |-> [present |-> TRUE, admin |-> n = "root", banned |-> FALSE]]
    /\ sessions = UpvoteSessions
    /\ dbSessions = UpvoteSessions
    /\ nextToken = 1
    /\ jams = [s \in Slugs |-> [present |-> TRUE, dates |-> TRUE, start |-> 0,
                                 end |-> IF s = "j1" THEN 1 ELSE 3, enableMystery |-> FALSE]]
    /\ managers = <<>>
    /\ \E docs \in WinnerProjectLists :
          projects = <<[jam |-> "j2", project |-> 1, submitted |-> 0, submittedBy |-> "ann",
                        selected |-> FALSE, selectedByTheCommunity |-> TRUE]>> \o docs
    /\ \E votes \in WinnerVoteLists :
          upvotes = <<[jam |-> "j2", project |-> 1, upvotedBy |-> "root"],
                      [jam |-> "j1", project |-> WithdrawnProject, upvotedBy |-> "root"],
                      [jam |-> "j1", project |-> WithdrawnProject, upvotedBy |-> "ann"]>>
                    \o WinnerVoteDocs(votes)
    /\ resp = InitResp
    /\ pending = NoPending
    /\ issued = {}
    /\ exchanged = [t \in Tokens |-> 0]

WinnerNext == \E j \in Slugs : GetWinners(j)

SpecWinners == WinnerInit /\ [][WinnerNext]_vars

\* what the claims about the resolver speak of
jamClosed(jam) == jams[jam].present /\ jams[jam].end # NoDate /\ jams[jam].end <= now

\* the projects of the jam that are not manually selected
Eligible(jam) == {i \in DOMAIN projects : projects[i].jam = jam /\ ~projects[i].selected}

upvoteCount(jam, id) ==
    Cardinality({k \in DOMAIN upvotes : upvotes[k].jam = jam /\ upvotes[k].project = id})

\* the eligible projects with the highest upvote count
TopProjects(jam) ==
    {i \in Eligible(jam) :
        \A k \in Eligible(jam) : upvoteCount(jam, projects[k].project) <= upvoteCount(jam, projects[i].project)}

Flagged(jam) == {i \in DOMAIN projects : projects[i].jam = jam /\ projects[i].selectedByTheCommunity}

resolverRanOn(jam) == resp.op = "getWinners" /\ resp.status = 200 /\ resp.req.jam = jam

\* C4: after the resolver has run on a closed jam in which several eligible
\* projects share the highest (non-zero) upvote count, the project flagged
\* selectedByTheCommunity is one of them and none of them was submitted
\* earlier than it, whatever the storage order of projects and upvotes.
C4_TieGoesToEarliestSubmission ==
    \A j \in Slugs :
        (/\ resolverRanOn(j) /\ jamClosed(j)
         /\ Cardinality(TopProjects(j)) >= 2
         /\ \E i \in TopProjects(j) : upvoteCount(j, projects[i].project) > 0)
        => /\ Flagged(j) # {}
           /\ \A w \in Flagged(j) :
                 /\ w \in TopProjects(j)
                 /\ \A i \in TopProjects(j) : projects[w].submitted <= projects[i].submitted

\* the resolver has run on a closed jam where two projects tie for the
\* highest count, the one stored first was submitted later, and the
\* earlier one carries the flag
C4_Witness ==
    /\ resolverRanOn("j1") /\ jamClosed("j1")
    /\ \E i, k \in TopProjects("j1") :
          /\ i < k
          /\ projects[i].project < projects[k].project
          /\ upvoteCount("j1", projects[i].project) > 0
          /\ projects[k].submitted < projects[i].submitted
          /\ projects[k].selectedByTheCommunity

\* C5: after the resolver has run on a closed jam that has an upvote for a
\* project not manually selected, exactly one project of the jam is flagged
\* selectedByTheCommunity, it is not manually selected, and no project that
\* is not manually selected has more upvotes; upvotes for selected projects
\* and for ids not submitted to the jam have no part in this.
C5_SingleCommunityWinner ==
    \A j \in Slugs :
        (/\ resolverRanOn(j) /\ jamClosed(j)
         /\ \E i \in Eligible(j) : upvoteCount(j, projects[i].project) > 0)
        => /\ Cardinality(Flagged(j)) = 1
           /\ \A w \in Flagged(j) : w \in TopProjects(j)

\* the resolver has flagged a project with one upvote although a manually
\* selected project and an id not submitted to the jam have two, and has
\* cleared the flag another project carried
C5_Witness ==
    /\ resolverRanOn("j1") /\ jamClosed("j1")
    /\ \E w \in Flagged("j1"), i \in DOMAIN projects :
          /\ upvoteCount("j1", projects[w].project) = 1
          /\ projects[i].jam = "j1" /\ projects[i].selected
          /\ upvoteCount("j1", projects[i].project) > 1
          /\ upvoteCount("j1", WithdrawnProject) > 1

\* C6: when the resolver has just run on a jam, running it again on the
\* unchanged projects and upvotes changes no project document.
C6_ResolverIdempotent ==
    \A j \in Slugs :
        resolverRanOn(j) => computeCommunitySelectedWinner(j).projects = projects

\* the resolver has run on a closed jam and moved the flag from one project
\* to another
C6_Witness ==
    /\ resolverRanOn("j1") /\ jamClosed("j1")
    /\ Cardinality(Flagged("j1")) = 1
    /\ Cardinality(Eligible("j1")) >= 2
    /\ \E k \in eligibleUpvotes("j1") : TRUE

---------------------------------------------------------------------------
(* Project submission *)

\* req.body.jam absent (or empty)
NoJam == ""

\* what the project lookup at the external service answers: an error, a
\* project of somebody else, or a project of the session's user
ScratchAnswers == {"error", "other", "owner"}

\* winner flags a request body may carry next to `project` and `jam`
BodyFlags == {[selected |-> FALSE, selectedByTheCommunity |-> FALSE],
              [selected |-> TRUE, selectedByTheCommunity |-> TRUE]}

\* (jam.dates.start && ISO(start)) <= today && today < (jam.dates.end && ISO(end))
submissionOpen(jam) ==
    /\ jams[jam].start # NoDate /\ jams[jam].start <= now
    /\ jams[jam].end # NoDate /\ now < jams[jam].end

\* (mutation for C8: the duplicate check looks in the other jams)
projectAlreadySubmitted_otherJam(jam, project) ==
    CountDocuments({i \in DOMAIN projects : projects[i].project = project /\ projects[i].jam # jam}) > 0

\* Projects.countDocuments({project: record.project, jam: record.jam}) > 0
projectAlreadySubmitted(jam, project) ==
    CountDocuments({i \in DOMAIN projects : projects[i].project = project /\ projects[i].jam = jam}) > 0

\* PUT /api/jams/:jam/projects/ : `jam` is the jam of the path, `record`
\* the body's jam and project; the answer of the external service and the
\* other fields of the body are drawn where the handler reads them
SubmitProject(auth, jam, recordJam, recordProject) ==
    LET name == sessionName(auth)
        checked == [path |-> jam]
        req == [path |-> jam, jam |-> recordJam, project |-> recordProject]
        Reject(r, status, code, threw) ==
            /\ resp' = Response("submitProject", r, status, code, NoBody, threw)
            /\ projects' = projects
    IN  /\ UNCHANGED <<pending, now, users, sessions, dbSessions, nextToken, jams, managers, upvotes, issued, exchanged>>
        /\ IF auth = NoToken THEN Reject(NoBody, 401, "needAuth", FALSE)
           ELSE IF ~findSession(auth) THEN Reject(NoBody, 403, "invalidAuth", FALSE)
           ELSE IF recordProject = NoProject \/ recordJam = NoJam
           THEN Reject(NoBody, 400, "missingParameters", FALSE)
           ELSE IF ~jams[jam].present THEN Reject(NoBody, 400, "jamNotFound", FALSE)
           \* jam.dates.start of a stored document that has no `dates` object
           ELSE IF ~jams[jam].dates THEN Reject(checked, 0, "noResponse", TRUE)
           ELSE IF ~submissionOpen(jam) THEN Reject(checked, 403, "jamNotOpen", FALSE)
           ELSE \E scratch \in ScratchAnswers :
                  IF scratch = "error" THEN Reject(checked, 400, "badRequest", FALSE)
                  ELSE IF scratch # "owner" THEN Reject(checked, 403, "illegalRequest", FALSE)
                  ELSE IF projectAlreadySubmitted(recordJam, recordProject)
                  THEN Reject(req, 403, "alreadySubmitted", FALSE)
                  ELSE \E flags \in BodyFlags :
                         /\ Len(projects) < MaxProjectDocs
                         /\ projects' = Append(projects,
                               [jam |-> recordJam, project |-> recordProject, submitted |-> now,
                                submittedBy |-> name, selected |-> flags.selected,
                                selectedByTheCommunity |-> flags.selectedByTheCommunity])
                         /\ resp' = Response("submitProject", req, 200, "ok", NoBody, FALSE)

\* time passes between two requests
Tick ==
    /\ now < MaxTime
    /\ now' = now + 1
    /\ UNCHANGED <<pending, users, sessions, dbSessions, nextToken, jams, managers, projects, upvotes,
                   resp, issued, exchanged>>

\* The jams a submission may name in its path: "j1" accepts submissions
\* from 1 until 3; "j2" has no start date; "j3" is stored without a `dates`
\* object and "j4" with an empty one; "j5" has no end date; "j6" is not
\* stored.
SubmitSlugs == Slugs \cup {"j3", "j4", "j5", "j6"}

SubmitJams ==
    [s \in SubmitSlugs |->
        CASE s = "j1" -> [present |-> TRUE, dates |-> TRUE, start |-> 1, end |-> 3, enableMystery |-> FALSE]
          [] s = "j2" -> [present |-> TRUE, dates |-> TRUE, start |-> NoDate, end |-> 3, enableMystery |-> FALSE]
          [] s = "j3" -> [present |-> TRUE, dates |-> FALSE, start |-> NoDate, end |-> NoDate, enableMystery |-> FALSE]
          [] s = "j4" -> [present |-> TRUE, dates |-> TRUE, start |-> NoDate, end |-> NoDate, enableMystery |-> FALSE]
          [] s = "j5" -> [present |-> TRUE, dates |-> TRUE, start |-> 0, end |-> NoDate, enableMystery |-> FALSE]
          [] OTHER -> [present |-> FALSE]]

SubmitInit ==
    /\ now = 0
    /\ users = [n \in Names |-> [present |-> TRUE, admin |-> n = "root", banned |-> FALSE]]
    /\ sessions = UpvoteSessions
    /\ dbSessions = UpvoteSessions
    /\ nextToken = 1
    /\ jams = SubmitJams
    /\ managers = <<>>
    /\ projects = <<>>
    /\ upvotes = <<>>
    /\ resp = InitResp
    /\ pending = NoPending
    /\ issued = {}
    /\ exchanged = [t \in Tokens |-> 0]

\* the project ids a body may carry
SubmitProjectIds == {1, 2}

\* Requests come without a token, with an unknown token, or with the token
\* of ann's session; only the last kind gets as far as reading the rest of
\* the request.
SubmitNext ==
    \/ \E auth \in {NoToken, BogusToken} : SubmitProject(auth, "j1", "j1", 1)
    \/ \E jam \in SubmitSlugs, recordJam \in Slugs \cup {NoJam},
          recordProject \in {NoProject} \cup SubmitProjectIds :
          SubmitProject(AnnToken, jam, recordJam, recordProject)
    \/ Tick

SpecSubmit == SubmitInit /\ [][SubmitNext]_vars

\* the handler found the jam of the path and went on to its window check
reachedWindowCheck(r) == r.op = "submitProject" /\ r.req # NoBody

\* C7: a submission that reaches the window check while the jam of the path
\* is not open (before its start, at or after its end, or with a date
\* missing) is answered jamNotOpen and stores no project.
C7_SubmissionOutsideWindowRejected ==
    [][(/\ now' = now
        /\ reachedWindowCheck(resp')
        /\ ~submissionOpen(resp'.req.path))
       => (resp'.code = "jamNotOpen" /\ projects' = projects)]_vars

\* C8: no jam holds two project records with the same project id, and a
\* submission that gets as far as the duplicate check while its project id
\* is stored for its jam is answered alreadySubmitted and stores nothing.
C8_ProjectSubmittedOncePerJam ==
    /\ [](\A i, k \in DOMAIN projects :
            (projects[i].jam = projects[k].jam /\ projects[i].project = projects[k].project) => i = k)
    /\ [][(/\ now' = now
           /\ resp'.op = "submitProject"
           /\ resp'.code \in {"alreadySubmitted", "ok"}
           /\ \E i \in DOMAIN projects :
                 projects[i].jam = resp'.req.jam /\ projects[i].project = resp'.req.project)
          => (resp'.code = "alreadySubmitted" /\ projects' = projects)]_vars

\* a second submission of a stored project id to the same jam has been
\* rejected while the same id is also stored for the other jam
C8_Witness ==
    /\ resp.op = "submitProject" /\ resp.code = "alreadySubmitted"
    /\ \E i, k \in DOMAIN projects :
          /\ projects[i].jam = resp.req.jam /\ projects[i].project = resp.req.project
          /\ projects[k].jam # resp.req.jam /\ projects[k].project = resp.req.project

---------------------------------------------------------------------------
(* Fetching jams *)

\* new Date(dates.start) > new Date() && options.enableMystery === true
\* (a missing start date gives an invalid Date, which compares false)
isMystery(slug) ==
    jams[slug].start # NoDate /\ jams[slug].start > now /\ jams[slug].enableMystery = TRUE

\* (mutation for C9: only an admin is spared the redaction)
hidesContent_adminOnly(auth, slug) ==
    IF findSession(auth) /\ getUserData(sessionName(auth)).present
    THEN ~getUserData(sessionName(auth)).admin
    ELSE TRUE

\* sessionUser ? !sessionUser.admin && !(await sessionUser.isManager(slug)) : true
\* where sessionUser is null without a token, a session or a user document
hidesContent(auth, slug) ==
    IF findSession(auth) /\ getUserData(sessionName(auth)).present
    THEN ~getUserData(sessionName(auth)).admin /\ ~isManager(sessionName(auth), slug)
    ELSE TRUE

\* what the response shows of one jam: its `mystery` field ("unset" when the
\* handler adds none) and whether content.body and content.colors are there
jamView(auth, slug) ==
    IF isMystery(slug)
    THEN [mystery |-> "true", body |-> ~hidesContent(auth, slug), colors |-> ~hidesContent(auth, slug)]
    ELSE [mystery |-> "false", body |-> TRUE, colors |-> TRUE]

\* the stored document as it is
storedView == [mystery |-> "unset", body |-> TRUE, colors |-> TRUE]

storedJams == {s \in Slugs : jams[s].present}

\* GET /api/jams/:jam? ; jam = NoJam asks for the listing
GetJams(auth, jam, bypassMystery) ==
    LET req == [auth |-> auth, jam |-> jam, bypassMystery |-> bypassMystery]
        sessionUser == getUserData(sessionName(auth))
        Answer(status, code, body, threw) == resp' = Response("getJams", req, status, code, body, threw)
        List(views) == [total |-> Cardinality(storedJams), jams |-> views]
    IN  /\ UNCHANGED <<pending, now, users, sessions, dbSessions, nextToken, jams, managers, projects, upvotes,
                       issued, exchanged>>
        /\ IF jam = NoJam
           THEN IF bypassMystery
                THEN IF auth = NoToken THEN Answer(401, "needAuth", NoBody, FALSE)
                     ELSE IF ~findSession(auth) THEN Answer(403, "invalidAuth", NoBody, FALSE)
                     \* sessionUser.admin of null
                     ELSE IF ~sessionUser.present THEN Answer(0, "noResponse", NoBody, TRUE)
                     \* req.params.jam is undefined on this branch
                     ELSE IF ~sessionUser.admin /\ ~isManager(sessionName(auth), NoJam)
                     THEN Answer(403, "insufficientPermissions", NoBody, FALSE)
                     ELSE Answer(200, "ok", List([s \in storedJams |-> storedView]), FALSE)
                ELSE Answer(200, "ok", List([s \in storedJams |-> jamView(auth, s)]), FALSE)
           ELSE IF ~jams[jam].present THEN Answer(404, "jamNotFound", NoBody, FALSE)
           ELSE IF bypassMystery
                \* the 401 is sent without a return: the handler goes on to
                \* line 347 and throws on sending a second response
                THEN IF auth = NoToken THEN Answer(401, "needAuth", NoBody, TRUE)
                     ELSE IF ~findSession(auth) THEN Answer(403, "invalidAuth", NoBody, FALSE)
                     ELSE IF ~sessionUser.present THEN Answer(0, "noResponse", NoBody, TRUE)
                     ELSE IF ~sessionUser.admin /\ ~isManager(sessionName(auth), jam)
                     THEN Answer(403, "insufficientPermissions", NoBody, FALSE)
                     ELSE Answer(200, "ok", [jams |-> [s \in {jam} |-> storedView]], FALSE)
                \* jam['dates']['start'] of a document without a `dates` object
                ELSE IF ~jams[jam].dates THEN Answer(0, "noResponse", NoBody, TRUE)
                ELSE Answer(200, "ok", [jams |-> [s \in {jam} |-> jamView(auth, jam)]], FALSE)

\* The clock reads 2.  Jam "j1" starts at 1 or at 3, with or without the
\* mystery option; jam "j2" likewise, or is stored without a `dates` object,
\* or is not stored.  ann is a user without the admin flag who manages none,
\* one or both of the jams, or whose user document is gone; root is an admin.
FetchJamStates ==
    [present : {TRUE}, dates : {TRUE}, start : {1, 3}, end : {NoDate}, enableMystery : BOOLEAN]

FetchManagerLists ==
    {<<>>, <<[jam |-> "j1", name |-> "ann"]>>, <<[jam |-> "j2", name |-> "ann"]>>,
     <<[jam |-> "j1", name |-> "ann"], [jam |-> "j2", name |-> "ann"]>>}

FetchInit ==
    /\ now = 2
    /\ \E annPresent \in BOOLEAN :
          users = [n \in Names |-> [present |-> (n = "root" \/ annPresent), admin |-> n = "root",
                                   banned |-> FALSE]]
    /\ sessions = UpvoteSessions
    /\ dbSessions = UpvoteSessions
    /\ nextToken = 1
    /\ \E one \in FetchJamStates,
          other \in FetchJamStates \cup
                    {[present |-> FALSE],
                     [present |-> TRUE, dates |-> FALSE, start |-> NoDate, end |-> NoDate,
                      enableMystery |-> TRUE]} :
          jams = [s \in Slugs |-> IF s = "j1" THEN one ELSE other]
    /\ managers \in FetchManagerLists
    /\ projects = <<>>
    /\ upvotes = <<>>
    /\ resp = InitResp
    /\ pending = NoPending
    /\ issued = {}
    /\ exchanged = [t \in Tokens |-> 0]

FetchTokens == {NoToken, BogusToken, RootToken, AnnToken}

FetchNext ==
    \E auth \in FetchTokens, jam \in Slugs \cup {NoJam}, bypassMystery \in BOOLEAN :
        GetJams(auth, jam, bypassMystery)

SpecJams == FetchInit /\ [][FetchNext]_vars

\* the caller is authenticated as an admin or as a manager of the jam
privilegedFor(auth, slug) ==
    /\ findSession(auth)
    /\ users[sessionName(auth)].present
    /\ \/ users[sessionName(auth)].admin
       \/ \E i \in DOMAIN managers : managers[i].jam = slug /\ managers[i].name = sessionName(auth)

\* the jams a request is about: the one it names, or every stored jam
jamsConcerned(jam) == IF jam = NoJam THEN storedJams ELSE {jam} \cap storedJams

\* the response carries the jam with content.body and content.colors
showsContent(r, slug) ==
    /\ r.status = 200
    /\ slug \in DOMAIN r.body.jams
    /\ r.body.jams[slug].body /\ r.body.jams[slug].colors

\* the response carries the jam without content.body and content.colors
showsRedacted(r, slug) ==
    /\ r.status = 200
    /\ slug \in DOMAIN r.body.jams
    /\ ~r.body.jams[slug].body /\ ~r.body.jams[slug].colors

C10_BypassOnlyForPrivileged ==
    (/\ resp.op = "getJams" /\ resp.req.bypassMystery
     /\ jamsConcerned(resp.req.jam) # {})
    => IF \A s \in jamsConcerned(resp.req.jam) : privilegedFor(resp.req.auth, s)
       THEN \A s \in jamsConcerned(resp.req.jam) : showsContent(resp, s)
       ELSE resp.status # 200

---------------------------------------------------------------------------
(* Jam administration: PUT /api/jams/:jam? and DELETE /api/jams/:jam *)

\* a body without a `name` field
NoName == ""

\* names a request body may give a jam
JamNames == {"J1", "J2"}

\* speakingurl's getSlug(name): the lower-case, URL-safe form of the name
getSlug(name) == CASE name = "J1" -> "j1" [] name = "J2" -> "j2" [] OTHER -> NoJam

\* the slug field is `unique`: when another jam holds the slug of the name,
\* the slug plugin appends a separator and a suffix
suffixedSlug(slug) == slug \o "-2"

\* the slugs a stored jam can have
AdminSlugs == Slugs \cup {suffixedSlug(s) : s \in Slugs}

slugTaken(slug, own) == slug # own /\ jams[slug].present

\* the slug the plugin gives a jam called `name`; `own` is the slug the jam
\* has now (NoJam for a jam that is being created)
uniqueSlug(name, own) ==
    IF slugTaken(getSlug(name), own) THEN suffixedSlug(getSlug(name)) ELSE getSlug(name)

\* request bodies of PUT /api/jams/:jam?: name, dates.end and whether
\* content.body is given
JamBodies == [name : JamNames \cup {NoName}, end : {NoDate, MaxTime}, content : BOOLEAN]

\* Mongoose validation of a new jam: name and content.body are required
jamValid(body) == body.name # NoName /\ body.content

\* Projects.updateMany({jam, $or: [{selected: true}, {selectedByTheCommunity: true}]},
\*                     {selected: false, selectedByTheCommunity: false})
clearWinners(jam) ==
    [i \in DOMAIN projects |->
        IF projects[i].jam = jam /\ (projects[i].selected \/ projects[i].selectedByTheCommunity)
        THEN [projects[i] EXCEPT !.selected = FALSE, !.selectedByTheCommunity = FALSE]
        ELSE projects[i]]

\* Managers.updateMany({jam}, {$set: {jam: newSlug}})
relinkManagers(jam, newSlug) ==
    [i \in DOMAIN managers |->
        IF managers[i].jam = jam THEN [managers[i] EXCEPT !.jam = newSlug] ELSE managers[i]]

\* the jam document Jams.create stores for a valid body
createdJam(body) ==
    [present |-> TRUE, name |-> body.name, dates |-> body.end # NoDate,
     start |-> NoDate, end |-> body.end, enableMystery |-> FALSE]

\* (mutation for C18: the document is inserted before it is validated)
createJam_insertFirst(body) ==
    [ok |-> jamValid(body),
     slug |-> IF body.name = NoName THEN NoJam ELSE uniqueSlug(body.name, NoJam),
     jams |-> IF body.name = NoName THEN jams
              ELSE [jams EXCEPT ![uniqueSlug(body.name, NoJam)] = createdJam(body)]]

\* Jams.create(record): validation comes first, and a record that fails it
\* is not inserted
createJam(body) ==
    IF jamValid(body)
    THEN [ok |-> TRUE, slug |-> uniqueSlug(body.name, NoJam),
          jams |-> [jams EXCEPT ![uniqueSlug(body.name, NoJam)] = createdJam(body)]]
    ELSE [ok |-> FALSE, slug |-> NoJam, jams |-> jams]

\* mergeObjects(jam, updateQuery): the stored document with the fields the
\* body gives
mergedJam(stored, body) ==
    [stored EXCEPT !.name = IF body.name # NoName THEN body.name ELSE @,
                   !.dates = @ \/ body.end # NoDate,
                   !.end = IF body.end # NoDate THEN body.end ELSE @]

\* the slug of the updated document: the plugin renews it when the name changes
updatedSlug(jam, body) ==
    IF body.name # NoName /\ body.name # jams[jam].name THEN uniqueSlug(body.name, jam) ELSE jam

\* PUT /api/jams/:jam? -- without :jam an admin creates a jam, with :jam an
\* admin or a manager of the jam updates it.  The body is read only on the
\* paths that get past the permission checks.
PutJam(auth, jam) ==
    LET name == sessionName(auth)
        sessionUser == getUserData(name)
        Reject(req, status, code) ==
            /\ resp' = Response("putJam", req, status, code, NoBody, FALSE)
            /\ UNCHANGED <<jams, managers, projects>>
    IN  /\ UNCHANGED <<pending, now, users, sessions, dbSessions, nextToken, upvotes, issued, exchanged>>
        /\ IF auth = NoToken THEN Reject(NoBody, 401, "needAuth")
           ELSE IF ~findSession(auth) THEN Reject(NoBody, 403, "invalidAuth")
           ELSE IF ~sessionUser.present
           THEN \* sessionUser is null: reading .admin throws
                /\ resp' = Response("putJam", NoBody, 0, "", NoBody, TRUE)
                /\ UNCHANGED <<jams, managers, projects>>
           ELSE IF jam = NoJam
           THEN IF ~sessionUser.admin THEN Reject([jam |-> jam], 403, "insufficientPermissions")
                ELSE \E body \in JamBodies :
                        LET made == createJam(body)
                        IN  /\ made.ok => ~jams[made.slug].present
                            /\ jams' = made.jams
                            /\ resp' = IF made.ok
                                       THEN Response("putJam", [jam |-> jam], 200, "created",
                                                     [slug |-> made.slug], FALSE)
                                       ELSE Response("putJam", [jam |-> jam], 400,
                                                     "missingParameters", NoBody, FALSE)
                            /\ UNCHANGED <<managers, projects>>
           ELSE IF ~sessionUser.admin /\ ~isManager(name, jam)
           THEN Reject([jam |-> jam], 403, "insufficientPermissions")
           ELSE IF ~jams[jam].present THEN Reject([jam |-> jam], 404, "jamNotFound")
           ELSE \E body \in {b \in JamBodies : b.content} :
                   LET newSlug == updatedSlug(jam, body)
                   IN  /\ ~jams[newSlug].present \/ newSlug = jam
                       /\ projects' = IF body.end # NoDate /\ body.end > now
                                      THEN clearWinners(jam) ELSE projects
                       /\ jams' = IF newSlug = jam
                                  THEN [jams EXCEPT ![jam] = mergedJam(jams[jam], body)]
                                  ELSE [jams EXCEPT ![jam] = [present |-> FALSE],
                                                    ![newSlug] = mergedJam(jams[jam], body)]
                       /\ managers' = IF newSlug # jam THEN relinkManagers(jam, newSlug)
                                      ELSE managers
                       /\ resp' = Response("putJam", [jam |-> jam], 200, "updated",
                                           [slug |-> newSlug], FALSE)

\* (mutation for C19: only the first document of the jam is deleted)
deleteManyOfJam_first(docs, jam) == DeleteOne(docs, {i \in DOMAIN docs : docs[i].jam = jam})

\* Model.deleteMany({jam: req.params.jam})
deleteManyOfJam(docs, jam) == DeleteMany(docs, {i \in DOMAIN docs : docs[i].jam = jam})

\* DELETE /api/jams/:jam
DeleteJam(auth, jam) ==
    LET name == sessionName(auth)
        sessionUser == getUserData(name)
        Reject(status, code) ==
            /\ resp' = Response("deleteJam", [jam |-> jam], status, code, NoBody, FALSE)
            /\ UNCHANGED <<jams, managers, projects, upvotes>>
        RejectEarly(status, code) ==
            /\ resp' = Response("deleteJam", NoBody, status, code, NoBody, FALSE)
            /\ UNCHANGED <<jams, managers, projects, upvotes>>
    IN  /\ UNCHANGED <<pending, now, users, sessions, dbSessions, nextToken, issued, exchanged>>
        /\ IF auth = NoToken THEN RejectEarly(401, "needAuth")
           ELSE IF ~findSession(auth) THEN RejectEarly(403, "invalidAuth")
           ELSE IF ~sessionUser.present
           THEN /\ resp' = Response("deleteJam", NoBody, 0, "", NoBody, TRUE)
                /\ UNCHANGED <<jams, managers, projects, upvotes>>
           ELSE IF ~sessionUser.admin THEN Reject(403, "insufficientPermissions")
           ELSE IF ~jams[jam].present THEN Reject(404, "jamNotFound")
           ELSE /\ jams' = [jams EXCEPT ![jam] = [present |-> FALSE]]
                /\ projects' = deleteManyOfJam(projects, jam)
                /\ upvotes' = deleteManyOfJam(upvotes, jam)
                /\ managers' = deleteManyOfJam(managers, jam)
                /\ resp' = Response("deleteJam", [jam |-> jam, name |-> name], 200, "ok",
                                    NoBody, FALSE)

\* the tokens the requests of the administration specifications carry:
\* none, the admin's and the token of ann, who is not an admin
AdminTokens == {NoToken, RootToken, AnnToken}

\* At the start jam "j1" is stored, closed, with ann as its manager, two
\* submitted projects (one of them a selected winner) and two upvotes.
JamAdminInit ==
    /\ now = 1
    /\ users = [n \in Names |-> [present |-> TRUE, admin |-> n = "root", banned |-> FALSE]]
    /\ sessions = UpvoteSessions
    /\ dbSessions = UpvoteSessions
    /\ nextToken = 1
    /\ jams = [s \in AdminSlugs |->
                  IF s = "j1"
                  THEN [present |-> TRUE, name |-> "J1", dates |-> TRUE, start |-> 0, end |-> 1,
                        enableMystery |-> FALSE]
                  ELSE [present |-> FALSE]]
    /\ managers = <<[jam |-> "j1", name |-> "ann"]>>
    /\ projects = <<[jam |-> "j1", project |-> 1, submitted |-> 0, submittedBy |-> "ann",
                     selected |-> TRUE, selectedByTheCommunity |-> FALSE],
                    [jam |-> "j1", project |-> 2, submitted |-> 0, submittedBy |-> "root",
                     selected |-> FALSE, selectedByTheCommunity |-> FALSE]>>
    /\ upvotes = <<[jam |-> "j1", project |-> 1, upvotedBy |-> "root"],
                   [jam |-> "j1", project |-> 2, upvotedBy |-> "ann"]>>
    /\ resp = InitResp
    /\ pending = NoPending
    /\ issued = {}
    /\ exchanged = [o \in Tokens |-> 0]

JamAdminNext ==
    \/ \E auth \in AdminTokens, jam \in AdminSlugs \cup {NoJam} : PutJam(auth, jam)
    \/ \E auth \in AdminTokens, jam \in AdminSlugs : DeleteJam(auth, jam)

SpecJamAdmin == JamAdminInit /\ [][JamAdminNext]_vars

\* the records of a collection that reference the jam `slug`
refsTo(docs, slug) == {i \in DOMAIN docs : docs[i].jam = slug}

\* C15: after an update that changed a jam's slug, the Manager, Project and
\* Upvote records that referenced the old slug reference the new slug, and
\* none references the old one.
C15_RenameRelinksDependents ==
    [][(resp'.op = "putJam" /\ resp'.code = "updated" /\ resp'.body.slug # resp'.req.jam)
       => LET old == resp'.req.jam
              new == resp'.body.slug
          IN  /\ \A i \in refsTo(managers, old) : managers'[i].jam = new
              /\ \A i \in refsTo(projects, old) : projects'[i].jam = new
              /\ \A i \in refsTo(upvotes, old) : upvotes'[i].jam = new
              /\ refsTo(managers', old) = {}
              /\ refsTo(projects', old) = {}
              /\ refsTo(upvotes', old) = {}]_vars

\* the jam of the last request is gone and nothing references its slug
jamGoneWithDependents ==
    /\ ~jams[resp.req.jam].present
    /\ refsTo(projects, resp.req.jam) = {}
    /\ refsTo(upvotes, resp.req.jam) = {}
    /\ refsTo(managers, resp.req.jam) = {}

---------------------------------------------------------------------------
(* Creation requests: project submission, upvote cast, jam creation *)

\* Jam "j1" accepts submissions; ann has upvoted two of its projects.
CreateInit ==
    /\ now = 1
    /\ users = [n \in Names |-> [present |-> TRUE, admin |-> n = "root", banned |-> FALSE]]
    /\ sessions = UpvoteSessions
    /\ dbSessions = UpvoteSessions
    /\ nextToken = 1
    /\ jams = [s \in AdminSlugs |->
                  IF s = "j1"
                  THEN [present |-> TRUE, name |-> "J1", dates |-> TRUE, start |-> 0,
                        end |-> MaxTime, enableMystery |-> FALSE]
                  ELSE [present |-> FALSE]]
    /\ managers = <<>>
    /\ projects = <<>>
    /\ upvotes = <<[jam |-> "j1", project |-> 1, upvotedBy |-> "ann"],
                   [jam |-> "j1", project |-> 2, upvotedBy |-> "ann"]>>
    /\ resp = InitResp
    /\ pending = NoPending
    /\ issued = {}
    /\ exchanged = [o \in Tokens |-> 0]

CreateNext ==
    \/ \E auth \in AdminTokens : PutJam(auth, NoJam)
    \/ \E auth \in {NoToken, BogusToken, AnnToken}, project \in {NoProject} \cup 1..3 :
          CastUpvote(auth, "j1", project)
    \/ \E auth \in {NoToken, BogusToken, AnnToken}, jam \in Slugs, recordJam \in {"j1", NoJam} :
          SubmitProject(auth, jam, recordJam, 1)

SpecCreate == CreateInit /\ [][CreateNext]_vars

\* the last request was answered with an error
answeredWithError(r) == r.status >= 400

\* C18: a project submission, an upvote cast or a jam creation that is
\* answered with an error leaves the projects, the upvotes and the jams as
\* they were before the request.
C18_ErrorLeavesCollections ==
    [][(resp'.op \in {"submitProject", "castUpvote", "putJam"} /\ answeredWithError(resp'))
       => (projects' = projects /\ upvotes' = upvotes /\ jams' = jams)]_vars

\* a jam creation was answered missingParameters after other jams had been
\* created, a project submitted and an upvote cast
C18_Witness ==
    /\ resp.op = "putJam" /\ resp.code = "missingParameters"
    /\ jams["j2"].present /\ Len(projects) = 1 /\ Len(upvotes) = 3

---------------------------------------------------------------------------
(* The ledger and the resolver on a closed jam *)

\* Jam "j1" is closed and holds two projects, no upvote and no winner flag:
\* the flags are what the resolver computes.
LedgerInit ==
    /\ now = 2
    /\ users = [n \in Names |-> [present |-> TRUE, admin |-> n = "root", banned |-> FALSE]]
    /\ sessions = UpvoteSessions
    /\ dbSessions = UpvoteSessions
    /\ nextToken = 1
    /\ jams = [s \in Slugs |-> [present |-> TRUE, dates |-> TRUE, start |-> 0,
                                 end |-> IF s = "j1" THEN 1 ELSE MaxTime, enableMystery |-> FALSE]]
    /\ managers = <<>>
    /\ projects = <<[jam |-> "j1", project |-> 1, submitted |-> 0, submittedBy |-> "ann",
                     selected |-> FALSE, selectedByTheCommunity |-> FALSE],
                    [jam |-> "j1", project |-> 2, submitted |-> 1, submittedBy |-> "root",
                     selected |-> FALSE, selectedByTheCommunity |-> FALSE]>>
    /\ upvotes = <<>>
    /\ resp = InitResp
    /\ pending = NoPending
    /\ issued = {}
    /\ exchanged = [o \in Tokens |-> 0]

LedgerTokens == {NoToken, RootToken, AnnToken}

LedgerNext ==
    \/ \E auth \in LedgerTokens, project \in 1..2 : CastUpvote(auth, "j1", project)
    \/ \E auth \in LedgerTokens, project \in 1..2 : RevokeUpvote(auth, "j1", project)
    \/ GetWinners("j1")

SpecLedger == LedgerInit /\ [][LedgerNext]_vars

\* the stored flags of the jam are what the resolver computes from the
\* stored projects and upvotes
flagsResolved(jam) == computeCommunitySelectedWinner(jam).projects = projects

\* C22: once an upvote cast or an upvote revoke on a closed jam has
\* completed, the stored selectedByTheCommunity flags equal what the
\* resolver computes from the stored projects and upvotes.
C22_ResolverRunsAfterMutation ==
    [][\A auth \in LedgerTokens, project \in 1..2 :
          (/\ jamClosed("j1")
           /\ \/ CastUpvote(auth, "j1", project)
              \/ RevokeUpvote(auth, "j1", project)
           /\ resp'.status = 200)
          => flagsResolved("j1")']_vars

---------------------------------------------------------------------------
(* Requests without an active session *)

\* Jam "j1" is closed and holds one project with one upvote; jam "j2" is
\* open.
AccessInit ==
    /\ now = 2
    /\ users = [n \in Names |-> [present |-> TRUE, admin |-> n = "root", banned |-> FALSE]]
    /\ sessions = UpvoteSessions
    /\ dbSessions = UpvoteSessions
    /\ nextToken = 1
    /\ jams = [s \in Slugs |-> [present |-> TRUE, dates |-> TRUE, start |-> 0,
                                 end |-> IF s = "j1" THEN 1 ELSE MaxTime, enableMystery |-> FALSE]]
    /\ managers = <<>>
    /\ projects = <<[jam |-> "j1", project |-> 1, submitted |-> 0, submittedBy |-> "ann",
                     selected |-> FALSE, selectedByTheCommunity |-> FALSE]>>
    /\ upvotes = <<[jam |-> "j1", project |-> 1, upvotedBy |-> "root"]>>
    /\ resp = InitResp
    /\ pending = NoPending
    /\ issued = {}
    /\ exchanged = [o \in Tokens |-> 0]

\* none, a token of no session, and the token of ann's session
AccessTokens == {NoToken, BogusToken, AnnToken}

\* GET /api/jams/:jam/winners/ reads no Authorization header: the request
\* GetWinners(jam) stands for carries no token.
AccessNext ==
    \/ \E auth \in AccessTokens, jam \in Slugs, project \in 1..2 : CastUpvote(auth, jam, project)
    \/ \E auth \in AccessTokens, jam \in Slugs, project \in 1..2 : RevokeUpvote(auth, jam, project)
    \/ \E auth \in AccessTokens : SubmitProject(auth, "j2", "j2", 2)
    \/ \E jam \in Slugs : GetWinners(jam)

SpecAccess == AccessInit /\ [][AccessNext]_vars

\* answered 401 or 403, with every stored record left as it was
rejectedUnchanged ==
    /\ resp'.status \in {401, 403}
    /\ UNCHANGED <<users, jams, managers, projects, upvotes>>

\* C17: a cast, a revoke, a submission or a fetch of the winners that comes
\* with no token or with a token of no active session is rejected and
\* changes no stored record.
C17_SessionRequired ==
    [][\A auth \in AccessTokens, jam \in Slugs, project \in 1..2 :
          (/\ ~findSession(auth)
           /\ \/ CastUpvote(auth, jam, project)
              \/ RevokeUpvote(auth, jam, project)
              \/ SubmitProject(auth, "j2", "j2", 2)
              \/ GetWinners(jam))
          => rejectedUnchanged]_vars

---------------------------------------------------------------------------
(* Jam managers: PUT and DELETE /api/jams/:jam/managers/ *)

\* Managers.exists({jam, name}) / Managers.findOne({jam, name})
managerRecords(jam, name) ==
    {i \in DOMAIN managers : managers[i].jam = jam /\ managers[i].name = name}

\* PUT /api/jams/:jam/managers/ with body {name}
PutManager(auth, jam, name) ==
    LET sessionUser == getUserData(sessionName(auth))
        Reject(req, status, code) ==
            /\ resp' = Response("putManager", req, status, code, NoBody, FALSE)
            /\ managers' = managers
        req == [jam |-> jam, name |-> name]
    IN  /\ UNCHANGED <<pending, now, users, sessions, dbSessions, nextToken, jams, projects, upvotes,
                       issued, exchanged>>
        /\ IF auth = NoToken THEN Reject(NoBody, 401, "needAuth")
           ELSE IF ~findSession(auth) THEN Reject(NoBody, 403, "invalidAuth")
           ELSE IF ~sessionUser.present
           THEN /\ resp' = Response("putManager", NoBody, 0, "", NoBody, TRUE)
                /\ managers' = managers
           ELSE IF ~sessionUser.admin /\ ~isManager(sessionName(auth), jam)
           THEN Reject(NoBody, 403, "insufficientPermissions")
           ELSE IF managerRecords(jam, name) # {} THEN Reject(req, 400, "recordAlreadyExists")
           ELSE IF ~users[name].present THEN Reject(req, 400, "userNotFound")
           ELSE IF getUserData(name).admin THEN Reject(req, 400, "userIsAdmin")
           ELSE /\ managers' = Append(managers, [jam |-> jam, name |-> name])
                /\ resp' = Response("putManager", req, 200, "ok", NoBody, FALSE)

\* DELETE /api/jams/:jam/managers/ with body {name}
DeleteManager(auth, jam, name) ==
    LET sessionUser == getUserData(sessionName(auth))
        Reject(req, status, code) ==
            /\ resp' = Response("deleteManager", req, status, code, NoBody, FALSE)
            /\ managers' = managers
        req == [jam |-> jam, name |-> name]
    IN  /\ UNCHANGED <<pending, now, users, sessions, dbSessions, nextToken, jams, projects, upvotes,
                       issued, exchanged>>
        /\ IF auth = NoToken THEN Reject(NoBody, 401, "needAuth")
           ELSE IF ~findSession(auth) THEN Reject(NoBody, 403, "invalidAuth")
           ELSE IF ~sessionUser.present
           THEN /\ resp' = Response("deleteManager", NoBody, 0, "", NoBody, TRUE)
                /\ managers' = managers
           ELSE IF ~sessionUser.admin /\ ~isManager(sessionName(auth), jam)
           THEN Reject(NoBody, 403, "insufficientPermissions")
           ELSE IF managerRecords(jam, name) = {} THEN Reject(req, 404, "managerNotFound")
           ELSE /\ managers' = DeleteOne(managers, managerRecords(jam, name))
                /\ resp' = Response("deleteManager", req, 200, "ok", NoBody, FALSE)

\* Managers are added and removed while the admin root updates ann (promotes
\* or demotes, bans or unbans).
ManagersInit ==
    /\ now = 0
    /\ users = [n \in Names |-> [present |-> TRUE, admin |-> n = "root", banned |-> FALSE]]
    /\ sessions = UpvoteSessions
    /\ dbSessions = UpvoteSessions
    /\ nextToken = 1
    /\ jams = [s \in Slugs |-> [present |-> TRUE, dates |-> TRUE, start |-> 0, end |-> 1,
                                 enableMystery |-> FALSE]]
    /\ managers = <<>>
    /\ projects = <<>>
    /\ upvotes = <<>>
    /\ resp = InitResp
    /\ pending = NoPending
    /\ issued = {}
    /\ exchanged = [o \in Tokens |-> 0]

ManagersNext ==
    \/ \E auth \in AdminTokens, jam \in Slugs, name \in Names : PutManager(auth, jam, name)
    \/ \E auth \in AdminTokens, jam \in Slugs, name \in Names : DeleteManager(auth, jam, name)
    \/ PutUser(RootToken, "ann")

SpecManagers == ManagersInit /\ [][ManagersNext]_vars

\* C20: there is at most one Manager record per (jam, name) pair, and no
\* user whose admin flag is set appears in a Manager record.
C20_ManagersUniqueAndNotAdmin ==
    /\ \A i, k \in DOMAIN managers : (managers[i] = managers[k]) => i = k
    /\ \A i \in DOMAIN managers : ~users[managers[i].name].admin

---------------------------------------------------------------------------
(* The resolver on a jam that is still open *)

\* Jam "j2" ends at 2 and the clock starts at 0.  Its project 1 carries the
\* community's flag of an earlier resolution (the end date was moved to the
\* future afterwards), project 2 carries no flag and project 3 has been
\* selected by hand.  Jam "j1" ended at 0 and its only project has been
\* selected by hand.
OpenJamInit ==
    /\ now = 0
    /\ users = [n \in Names |-> [present |-> TRUE, admin |-> n = "root", banned |-> FALSE]]
    /\ sessions = UpvoteSessions
    /\ dbSessions = UpvoteSessions
    /\ nextToken = 1
    /\ jams = [s \in Slugs |-> [present |-> TRUE, dates |-> TRUE, start |-> 0,
                                 end |-> IF s = "j1" THEN 0 ELSE 2, enableMystery |-> FALSE]]
    /\ managers = <<>>
    /\ projects = <<[jam |-> "j2", project |-> 1, submitted |-> 0, submittedBy |-> "ann",
                     selected |-> FALSE, selectedByTheCommunity |-> TRUE],
                    [jam |-> "j2", project |-> 2, submitted |-> 1, submittedBy |-> "root",
                     selected |-> FALSE, selectedByTheCommunity |-> FALSE],
                    [jam |-> "j2", project |-> 3, submitted |-> 1, submittedBy |-> "root",
                     selected |-> TRUE, selectedByTheCommunity |-> FALSE],
                    [jam |-> "j1", project |-> 1, submitted |-> 0, submittedBy |-> "ann",
                     selected |-> TRUE, selectedByTheCommunity |-> FALSE]>>
    /\ upvotes = <<>>
    /\ resp = InitResp
    /\ pending = NoPending
    /\ issued = {}
    /\ exchanged = [o \in Tokens |-> 0]

OpenJamNext ==
    \/ Tick
    \/ \E project \in 1..3 : CastUpvote(AnnToken, "j2", project)
    \/ \E project \in 1..3 : RevokeUpvote(AnnToken, "j2", project)
    \/ \E jam \in Slugs : GetWinners(jam)

SpecOpenJam == OpenJamInit /\ [][OpenJamNext]_vars

\* C29: a resolver run on a jam whose end date is in the future changes no
\* project's selected or selectedByTheCommunity flag, whatever the upvotes.
C29_OpenJamUntouched ==
    [][(resp'.op = "getWinners" /\ jams[resp'.req.jam].end > now)
       => /\ DOMAIN projects' = DOMAIN projects
          /\ \A i \in DOMAIN projects :
                /\ projects'[i].selected = projects[i].selected
                /\ projects'[i].selectedByTheCommunity = projects[i].selectedByTheCommunity]_vars

\* the resolver has run on the open jam while project 2 had the only upvote,
\* and project 1 still carries the flag
C29_Witness ==
    /\ resolverRanOn("j2") /\ jams["j2"].end > now
    /\ upvoteCount("j2", 2) > upvoteCount("j2", 1)
    /\ \E i \in Flagged("j2") : projects[i].project = 1

\* C30: after the resolver has run on a closed jam that has a project not
\* manually selected but no upvote for any such project, no project of the
\* jam is flagged selectedByTheCommunity; a run on a jam without a project
\* that is not manually selected changes nothing.
C30_NoUpvotesClearsFlag ==
    [][(resp'.op = "getWinners" /\ now' = now)
       => LET j == resp'.req.jam
          IN  /\ (/\ jamClosed(j)
                  /\ Eligible(j) # {}
                  /\ \A i \in Eligible(j) : upvoteCount(j, projects[i].project) = 0)
                 => \A i \in DOMAIN projects' :
                       projects'[i].jam = j => ~projects'[i].selectedByTheCommunity
              /\ Eligible(j) = {} => projects' = projects]_vars

\* the resolver has run on a closed jam whose only upvote names a manually
\* selected project, and no flag is left although two projects are eligible
\* and one of them carried the flag when the jam closed
C30_Witness ==
    /\ resolverRanOn("j2") /\ jamClosed("j2")
    /\ Eligible("j2") # {}
    /\ \A i \in Eligible("j2") : upvoteCount("j2", projects[i].project) = 0
    /\ \E i \in DOMAIN projects :
          projects[i].jam = "j2" /\ projects[i].selected /\ upvoteCount("j2", projects[i].project) > 0
    /\ Flagged("j2") = {}

---------------------------------------------------------------------------
(* Logout *)

---------------------------------------------------------------------------
(* What a revoke removes *)

\* the number of stored upvotes equal to u
copies(docs, u) == Cardinality({i \in DOMAIN docs : docs[i] = u})

UpvoteDocs == {upvotes[i] : i \in DOMAIN upvotes}

\* C32: a revoke removes at most the one upvote of (jam, project, calling
\* user) and leaves every other upvote as it was; a revoke that is not
\* answered 200 removes nothing, also when the project parameter is omitted.
C32_RevokeRemovesOnlyOwnUpvote ==
    [][\A t \in UpvoteTokens, p \in ProjectIds \cup {NoProject} :
          RevokeUpvote(t, "j1", p)
          => /\ resp'.status # 200 => upvotes' = upvotes
             /\ \A u \in UpvoteDocs :
                   IF findSession(t) /\ u = [jam |-> "j1", project |-> p, upvotedBy |-> sessionName(t)]
                   THEN copies(upvotes', u) >= copies(upvotes, u) - 1
                   ELSE copies(upvotes', u) = copies(upvotes, u)]_vars

---------------------------------------------------------------------------
(* Every accepted request is answered *)

\* C34: a user request that bears a token found by findSession and is
\* served from the application's own data (the named user is stored, so no
\* outside service is asked) is answered once when its handler returns, also
\* when the user of the session has been deleted since the session was issued.
C34_SessionRequestAnswered ==
    [][\A t \in AuthTokens, n \in Names :
          (/\ findSession(t)
           /\ \/ DeleteUser(t, n)
              \/ (getUserData(n).present /\ PutUser(t, n)))
          => (resp'.status # 0 /\ ~resp'.threw)]_vars

---------------------------------------------------------------------------
(* What a submission stores *)

\* C35: a submission request sets no winner flag: a project that carries
\* selected or selectedByTheCommunity after the request was stored before it
\* and carried the flag already.
C35_SubmissionSetsNoFlag ==
    [][resp'.op = "submitProject"
       => \A i \in DOMAIN projects' :
             /\ projects'[i].selected => (i \in DOMAIN projects /\ projects[i].selected)
             /\ projects'[i].selectedByTheCommunity
                => (i \in DOMAIN projects /\ projects[i].selectedByTheCommunity)]_vars

\* C36: a recorded submission is stored under the jam of the request path,
\* the jam whose existence and submission window the handler checked.
C36_StoredUnderCheckedJam ==
    (resp.op = "submitProject" /\ resp.status = 200)
    => /\ resp.req.jam = resp.req.path
       /\ \E i \in DOMAIN projects :
             projects[i].jam = resp.req.path /\ projects[i].project = resp.req.project

---------------------------------------------------------------------------
(* Overlapping casts: PUT /api/jams/:jam/upvotes/:project step by step *)

\* A handler runs until its next database operation and is suspended at the
\* `await` of that operation; other handlers run in between.  pending[r] is
\* the position and the local variables of the r-th request.

\* the handler of the r-th request is suspended at `at`
suspendedAt(r, at) == r \in DOMAIN pending /\ pending[r].pc = at

\* lines 786-804: the synchronous checks, then
\* upvotes = await Upvotes.countDocuments({jam, 'meta.upvotedBy': session.name})
CastBegin(auth, jam, project) ==
    LET name == sessionName(auth)
        Reject(status, code) ==
            /\ resp' = Response("castUpvote", NoBody, status, code, NoBody, FALSE)
            /\ pending' = Append(pending, [pc |-> "done"])
    IN  /\ Len(pending) < MaxRequests
        /\ UNCHANGED <<now, users, sessions, dbSessions, nextToken, jams, managers, projects,
                       upvotes, issued, exchanged>>
        /\ IF auth = NoToken THEN Reject(401, "needAuth")
           ELSE IF ~findSession(auth) THEN Reject(403, "invalidAuth")
           ELSE IF project = NoProject THEN Reject(400, "missingParameters")
           ELSE /\ pending' = Append(pending, [pc |-> "counted", name |-> name, jam |-> jam,
                                               project |-> project,
                                               upvotes |-> upvotesInJamBy(jam, name)])
                /\ resp' = resp

\* lines 805-821: the cap check on the count read before, then
\* count = await Upvotes.countDocuments({project, jam, 'meta.upvotedBy': session.name})
CastCheckCap(r) ==
    LET my == pending[r]
    IN  /\ suspendedAt(r, "counted")
        /\ UNCHANGED <<now, users, sessions, dbSessions, nextToken, jams, managers, projects,
                       upvotes, issued, exchanged>>
        /\ IF tooManyUpvotes(my.upvotes)
           THEN /\ resp' = Response("castUpvote", [request |-> r], 403, "tooManyUpvotes", NoBody, FALSE)
                /\ pending' = [pending EXCEPT ![r] = [pc |-> "done"]]
           ELSE /\ pending' = [pending EXCEPT ![r] =
                                  [pc |-> "checked", name |-> my.name, jam |-> my.jam,
                                   project |-> my.project,
                                   count |-> IF upvoteAlreadyCast(my.jam, my.project, my.name)
                                             THEN 1 ELSE 0]]
                /\ resp' = resp

\* lines 822-843: the duplicate check on the count read before, then
\* await Upvotes.create(record) and the answer
CastCreate(r) ==
    LET my == pending[r]
    IN  /\ suspendedAt(r, "checked")
        /\ UNCHANGED <<now, users, sessions, dbSessions, nextToken, jams, managers, projects,
                       issued, exchanged>>
        /\ pending' = [pending EXCEPT ![r] = [pc |-> "done"]]
        /\ IF my.count > 0
           THEN /\ resp' = Response("castUpvote", [request |-> r], 403, "alreadySubmitted", NoBody, FALSE)
                /\ upvotes' = upvotes
           ELSE /\ upvotes' = Append(upvotes, [jam |-> my.jam, project |-> my.project,
                                               upvotedBy |-> my.name])
                /\ resp' = Response("castUpvote", [request |-> r], 200, "ok", NoBody, FALSE)

\* ann has upvoted two projects of jam "j1"
CastsInit ==
    /\ now = 0
    /\ users = [n \in Names |-> [present |-> TRUE, admin |-> n = "root", banned |-> FALSE]]
    /\ sessions = UpvoteSessions
    /\ dbSessions = UpvoteSessions
    /\ nextToken = 1
    /\ jams = NoJams
    /\ managers = <<>>
    /\ projects = <<>>
    /\ upvotes = <<[jam |-> "j1", project |-> 1, upvotedBy |-> "ann"],
                   [jam |-> "j1", project |-> 2, upvotedBy |-> "ann"]>>
    /\ resp = InitResp
    /\ pending = NoPending
    /\ issued = {}
    /\ exchanged = [o \in Tokens |-> 0]

CastsNext ==
    \/ \E auth \in {NoToken, AnnToken}, project \in ProjectIds : CastBegin(auth, "j1", project)
    \/ \E r \in DOMAIN pending : CastCheckCap(r)
    \/ \E r \in DOMAIN pending : CastCreate(r)

SpecCasts == CastsInit /\ [][CastsNext]_vars

\* C23: under every interleaving of casts a user has at most 3 stored
\* upvotes in one jam, and a cast inserts only when the user's stored count
\* in the jam is below 3.
C23_CapUnderConcurrency ==
    /\ [](\A n \in Names, j \in Slugs : upvotesInJamBy(j, n) <= MAX_UPVOTES_PER_JAM)
    /\ [][\A r \in DOMAIN pending :
             (CastCreate(r) /\ upvotes' # upvotes)
             => upvotesInJamBy(pending[r].jam, pending[r].name) < MAX_UPVOTES_PER_JAM]_vars

\* C26: under every interleaving of casts there is at most one Upvote record
\* per (jam, project, upvotedBy) triple.
C26_TripleUniqueUnderConcurrency ==
    \A i, k \in DOMAIN upvotes : upvotes[i] = upvotes[k] => i = k

---------------------------------------------------------------------------
(* Overlapping exchanges: GET /auth/info step by step *)

\* lines 1131-1135: the lookup, the answer, then
\* await Sessions.updateOne({oneTimeToken}, {$set: {oneTimeToken: null}})
InfoBegin(token) ==
    LET i == findSessionByOneTimeTokenIndex(token)
    IN  /\ Len(pending) < MaxRequests
        /\ UNCHANGED <<now, users, sessions, nextToken, jams, managers, projects, upvotes, issued>>
        /\ IF token = NoToken
           THEN /\ resp' = Response("authInfo", [token |-> token], 400, "missingToken", NoBody, FALSE)
                /\ pending' = Append(pending, [pc |-> "done"])
                /\ UNCHANGED <<dbSessions, exchanged>>
           ELSE IF i = 0
           THEN /\ resp' = Response("authInfo", [token |-> token], 404, "noSession", NoBody, FALSE)
                /\ pending' = Append(pending, [pc |-> "done"])
                /\ UNCHANGED <<dbSessions, exchanged>>
           ELSE /\ resp' = Response("authInfo", [token |-> token], 200, "ok",
                                    [name |-> sessions[i].name, token |-> sessions[i].token], FALSE)
                /\ exchanged' = [exchanged EXCEPT ![token] = @ + 1]
                /\ dbSessions' = clearOneTimeTokenDurable(token)
                /\ pending' = Append(pending, [pc |-> "updated", session |-> i])

\* line 1136: session.oneTimeToken = null, once the update has returned
InfoClear(r) ==
    /\ suspendedAt(r, "updated")
    /\ sessions' = clearOneTimeTokenMemory(pending[r].session)
    /\ pending' = [pending EXCEPT ![r] = [pc |-> "done"]]
    /\ UNCHANGED <<now, users, dbSessions, nextToken, jams, managers, projects, upvotes, resp,
                   issued, exchanged>>

\* the one-time tokens of the two logins that have not been exchanged yet
RootOneTimeToken == 1
AnnOneTimeToken == 2

FreshSessions ==
    <<[name |-> "root", token |-> RootToken, oneTimeToken |-> RootOneTimeToken],
      [name |-> "ann", token |-> AnnToken, oneTimeToken |-> AnnOneTimeToken]>>

\* root and ann have just logged in: each session holds its one-time token
ExchangeInit ==
    /\ now = 0
    /\ users = [n \in Names |-> [present |-> TRUE, admin |-> n = "root", banned |-> FALSE]]
    /\ sessions = FreshSessions
    /\ dbSessions = FreshSessions
    /\ nextToken = 1
    /\ jams = NoJams
    /\ managers = <<>>
    /\ projects = <<>>
    /\ upvotes = <<>>
    /\ resp = InitResp
    /\ pending = NoPending
    /\ issued = {FreshSessions[i] : i \in DOMAIN FreshSessions}
    /\ exchanged = [o \in Tokens |-> 0]

ExchangeNext ==
    \/ \E token \in {NoToken, RootOneTimeToken, AnnOneTimeToken, BogusToken} : InfoBegin(token)
    \/ \E r \in DOMAIN pending : InfoClear(r)

SpecExchange == ExchangeInit /\ [][ExchangeNext]_vars

\* C24: of the /auth/info requests that carry the same one-time token, at
\* most one is answered {name, token}, however they overlap.
C24_ExchangeAtomic ==
    \A o \in {RootOneTimeToken, AnnOneTimeToken} : exchanged[o] <= 1

---------------------------------------------------------------------------
(* Overlapping resolver runs: computeCommunitySelectedWinner step by step *)

\* Projects.updateMany({jam, project: {$ne: winner}}, {selectedByTheCommunity: false})
clearOthers(jam, winner) ==
    [i \in DOMAIN projects |->
        IF projects[i].jam = jam /\ projects[i].project # winner
        THEN [projects[i] EXCEPT !.selectedByTheCommunity = FALSE]
        ELSE projects[i]]

\* Projects.updateOne({jam, project: winner}, {selectedByTheCommunity: true})
setWinner(jam, winner) ==
    LET first == FirstIndex({i \in DOMAIN projects :
                                projects[i].jam = jam /\ projects[i].project = winner})
    IN  IF first = 0 THEN projects
        ELSE [projects EXCEPT ![first].selectedByTheCommunity = TRUE]

\* lines 1001-1056: the reads (Jams.findOne, Projects.find, Upvotes.find) and
\* the tally.  The reads are taken at one instant, which leaves out the
\* runs in which a write falls between two of them.
ResolveRead(jam) ==
    /\ Len(pending) < MaxRequests
    /\ UNCHANGED <<now, users, sessions, dbSessions, nextToken, jams, managers, projects, upvotes,
                   resp, issued, exchanged>>
    /\ pending' = Append(pending,
          IF ~jams[jam].present \/ jams[jam].end = NoDate \/ jams[jam].end > now
             \/ eligibleProjects(jam) = {}
          THEN [pc |-> "done"]
          ELSE IF eligibleUpvotes(jam) = {} THEN [pc |-> "noUpvotes", jam |-> jam]
          ELSE [pc |-> "computed", jam |-> jam, winner |-> winnerOf(jam)])

\* lines 1016-1018: no eligible upvote was read, the flags of the jam are cleared
ResolveClearAll(r) ==
    /\ suspendedAt(r, "noUpvotes")
    /\ projects' = clearCommunityWinner(pending[r].jam)
    /\ pending' = [pending EXCEPT ![r] = [pc |-> "done"]]
    /\ UNCHANGED <<now, users, sessions, dbSessions, nextToken, jams, managers, upvotes, resp,
                   issued, exchanged>>

\* line 1057
ResolveClearOthers(r) ==
    /\ suspendedAt(r, "computed")
    /\ projects' = clearOthers(pending[r].jam, pending[r].winner)
    /\ pending' = [pending EXCEPT ![r].pc = "cleared"]
    /\ UNCHANGED <<now, users, sessions, dbSessions, nextToken, jams, managers, upvotes, resp,
                   issued, exchanged>>

\* line 1058
ResolveSetWinner(r) ==
    /\ suspendedAt(r, "cleared")
    /\ projects' = setWinner(pending[r].jam, pending[r].winner)
    /\ pending' = [pending EXCEPT ![r] = [pc |-> "done"]]
    /\ UNCHANGED <<now, users, sessions, dbSessions, nextToken, jams, managers, upvotes, resp,
                   issued, exchanged>>

\* Jam "j1" is closed and holds two projects; root has upvoted the first.
ResolversInit ==
    /\ now = 2
    /\ users = [n \in Names |-> [present |-> TRUE, admin |-> n = "root", banned |-> FALSE]]
    /\ sessions = UpvoteSessions
    /\ dbSessions = UpvoteSessions
    /\ nextToken = 1
    /\ jams = [s \in Slugs |-> [present |-> TRUE, dates |-> TRUE, start |-> 0,
                                 end |-> IF s = "j1" THEN 1 ELSE MaxTime, enableMystery |-> FALSE]]
    /\ managers = <<>>
    /\ projects = <<[jam |-> "j1", project |-> 1, submitted |-> 0, submittedBy |-> "ann",
                     selected |-> FALSE, selectedByTheCommunity |-> FALSE],
                    [jam |-> "j1", project |-> 2, submitted |-> 1, submittedBy |-> "root",
                     selected |-> FALSE, selectedByTheCommunity |-> FALSE]>>
    /\ upvotes = <<[jam |-> "j1", project |-> 1, upvotedBy |-> "root"]>>
    /\ resp = InitResp
    /\ pending = NoPending
    /\ issued = {}
    /\ exchanged = [o \in Tokens |-> 0]

\* resolver runs on both jams overlap with each other, with ann's cast for
\* project 2 and with root's revoke of the upvote for project 1
ResolversNext ==
    \/ \E jam \in Slugs : ResolveRead(jam)
    \/ \E r \in DOMAIN pending : ResolveClearAll(r)
    \/ \E r \in DOMAIN pending : ResolveClearOthers(r)
    \/ \E r \in DOMAIN pending : ResolveSetWinner(r)
    \/ CastUpvote(AnnToken, "j1", 2)
    \/ RevokeUpvote(RootToken, "j1", 1)

SpecResolvers == ResolversInit /\ [][ResolversNext]_vars

\* every resolver run that has started has returned
allRunsCompleted == \A r \in DOMAIN pending : pending[r].pc = "done"

\* C25: once all resolver runs have completed, at most one project of the
\* closed jam is flagged selectedByTheCommunity, however the runs overlap
\* with each other and with casts and revokes.
C25_OneWinnerUnderConcurrency ==
    allRunsCompleted => Cardinality(Flagged("j1")) <= 1

---------------------------------------------------------------------------
(* Withdrawing a project: DELETE /api/jams/:jam/projects/:project step by step *)

\* lines 702-730: the checks and Projects.deleteOne({project, jam}).  The
\* project is looked up by its id alone (line 716).  The reads and the
\* delete are taken at one instant.
WithdrawBegin(auth, jam, project) ==
    LET name == sessionName(auth)
        found == FirstIndex({i \in DOMAIN projects : projects[i].project = project})
        sessionUser == getUserData(name)
        Reject(status, code, threw) ==
            /\ resp' = Response("withdrawProject", NoBody, status, code, NoBody, threw)
            /\ pending' = Append(pending, [pc |-> "done"])
            /\ projects' = projects
    IN  /\ Len(pending) < MaxRequests
        /\ UNCHANGED <<now, users, sessions, dbSessions, nextToken, jams, managers, upvotes,
                       issued, exchanged>>
        /\ IF auth = NoToken THEN Reject(401, "needAuth", FALSE)
           ELSE IF ~findSession(auth) THEN Reject(403, "invalidAuth", FALSE)
           ELSE IF project = NoProject THEN Reject(400, "missingParameters", FALSE)
           ELSE IF found = 0 THEN Reject(404, "projectNotFound", FALSE)
           \* sessionUser.admin of a user that is no longer stored
           ELSE IF ~sessionUser.present THEN Reject(0, "noResponse", TRUE)
           ELSE IF /\ ~sessionUser.admin
                   /\ name # projects[found].submittedBy
                   /\ ~isManager(name, jam)
           THEN Reject(403, "insufficientPermissions", FALSE)
           ELSE /\ projects' = DeleteOne(projects, {i \in DOMAIN projects :
                                   projects[i].project = project /\ projects[i].jam = jam})
                /\ pending' = Append(pending, [pc |-> "projectDeleted", jam |-> jam,
                                               project |-> project])
                /\ resp' = resp

\* line 731: Upvotes.deleteMany({project, jam})
WithdrawUpvotes(r) ==
    /\ suspendedAt(r, "projectDeleted")
    /\ upvotes' = DeleteMany(upvotes, {i \in DOMAIN upvotes :
                        upvotes[i].project = pending[r].project /\ upvotes[i].jam = pending[r].jam})
    /\ pending' = [pending EXCEPT ![r].pc = "upvotesDeleted"]
    /\ UNCHANGED <<now, users, sessions, dbSessions, nextToken, jams, managers, projects,
                   resp, issued, exchanged>>

\* lines 734-736: the resolver, run here without interruption, and the answer
WithdrawResolve(r) ==
    LET computed == computeCommunitySelectedWinner(pending[r].jam)
    IN  /\ suspendedAt(r, "upvotesDeleted")
        /\ projects' = computed.projects
        /\ pending' = [pending EXCEPT ![r] = [pc |-> "done"]]
        /\ resp' = IF computed.threw
                   THEN Response("withdrawProject", [request |-> r], 0, "noResponse", NoBody, TRUE)
                   ELSE Response("withdrawProject", [request |-> r], 200, "ok", NoBody, FALSE)
        /\ UNCHANGED <<now, users, sessions, dbSessions, nextToken, jams, managers, upvotes,
                       issued, exchanged>>

\* Jam "j1" is stored and open, jam "j2" is not stored; ann has submitted
\* project 1 to "j1" and nobody has upvoted yet.
WithdrawInit ==
    /\ now = 0
    /\ users = [n \in Names |-> [present |-> TRUE, admin |-> n = "root", banned |-> FALSE]]
    /\ sessions = UpvoteSessions
    /\ dbSessions = UpvoteSessions
    /\ nextToken = 1
    /\ jams = [s \in Slugs |-> IF s = "j1"
                               THEN [present |-> TRUE, dates |-> TRUE, start |-> 0,
                                     end |-> MaxTime, enableMystery |-> FALSE]
                               ELSE [present |-> FALSE]]
    /\ managers = <<>>
    /\ projects = <<[jam |-> "j1", project |-> 1, submitted |-> 0, submittedBy |-> "ann",
                     selected |-> FALSE, selectedByTheCommunity |-> FALSE]>>
    /\ upvotes = <<>>
    /\ resp = InitResp
    /\ pending = NoPending
    /\ issued = {}
    /\ exchanged = [o \in Tokens |-> 0]

\* root casts upvotes for a submitted and for a missing project, in a stored
\* and in a missing jam, while ann withdraws the project
WithdrawNext ==
    \/ \E jam \in Slugs, project \in 1..2 : CastBegin(RootToken, jam, project)
    \/ \E r \in DOMAIN pending : CastCheckCap(r)
    \/ \E r \in DOMAIN pending : CastCreate(r)
    \/ \E auth \in {NoToken, AnnToken} : WithdrawBegin(auth, "j1", 1)
    \/ \E r \in DOMAIN pending : WithdrawUpvotes(r)
    \/ \E r \in DOMAIN pending : WithdrawResolve(r)

SpecWithdraw == WithdrawInit /\ [][WithdrawNext]_vars

\* C33: whenever no request is in progress, every Upvote record names a
\* stored jam and a project submitted to that jam.
C33_UpvotesReferenceProjects ==
    (\A r \in DOMAIN pending : pending[r].pc = "done")
    => \A k \in DOMAIN upvotes :
          /\ jams[upvotes[k].jam].present
          /\ \E i \in DOMAIN projects :
                projects[i].jam = upvotes[k].jam /\ projects[i].project = upvotes[k].project

---------------------------------------------------------------------------
(* Selecting and clearing a winner, step by step *)

\* Projects.updateMany({jam, project: {$ne: project}}, {selected: false})
unselectOthers(jam, project) ==
    [i \in DOMAIN projects |->
        IF projects[i].jam = jam /\ projects[i].project # project
        THEN [projects[i] EXCEPT !.selected = FALSE]
        ELSE projects[i]]

\* Projects.updateOne({jam, project}, {selected, selectedByTheCommunity: false})
\* for PUT, Projects.updateOne({jam, project}, {selected: false}) for DELETE
setSelected(jam, project, selected) ==
    LET first == FirstIndex({i \in DOMAIN projects :
                                projects[i].jam = jam /\ projects[i].project = project})
    IN  IF first = 0 THEN projects
        ELSE IF selected
        THEN [projects EXCEPT ![first].selected = TRUE,
                              ![first].selectedByTheCommunity = FALSE]
        ELSE [projects EXCEPT ![first].selected = FALSE]

\* the checks both winner handlers start with (lines 881-903, 914-936): the
\* status and code of the rejection, or status 0 when the request passes.
\* The reads of the user and of the Manager records are taken at one instant.
winnerRequestCheck(auth, jam, project) ==
    IF auth = NoToken THEN [status |-> 401, code |-> "needAuth", threw |-> FALSE]
    ELSE IF ~findSession(auth) THEN [status |-> 403, code |-> "invalidAuth", threw |-> FALSE]
    ELSE IF project = NoProject THEN [status |-> 400, code |-> "missingParameters", threw |-> FALSE]
    \* sessionUser.admin of a user that is no longer stored
    ELSE IF ~getUserData(sessionName(auth)).present
    THEN [status |-> 0, code |-> "noResponse", threw |-> TRUE]
    ELSE IF ~getUserData(sessionName(auth)).admin /\ ~isManager(sessionName(auth), jam)
    THEN [status |-> 403, code |-> "insufficientPermissions", threw |-> FALSE]
    ELSE [status |-> 0, code |-> "", threw |-> FALSE]

\* PUT /api/jams/:jam/winners/ up to line 905: the checks and the updateMany
SelectBegin(auth, jam, project) ==
    LET check == winnerRequestCheck(auth, jam, project)
    IN  /\ Len(pending) < MaxRequests
        /\ UNCHANGED <<now, users, sessions, dbSessions, nextToken, jams, managers, upvotes,
                       issued, exchanged>>
        /\ IF check.code # ""
           THEN /\ resp' = Response("selectWinner", NoBody, check.status, check.code, NoBody,
                                    check.threw)
                /\ pending' = Append(pending, [pc |-> "done"])
                /\ projects' = projects
           ELSE /\ projects' = unselectOthers(jam, project)
                /\ pending' = Append(pending, [pc |-> "othersUnselected", jam |-> jam,
                                               project |-> project])
                /\ resp' = resp

\* line 906
SelectSet(r) ==
    /\ suspendedAt(r, "othersUnselected")
    /\ projects' = setSelected(pending[r].jam, pending[r].project, TRUE)
    /\ pending' = [pending EXCEPT ![r].pc = "written"]
    /\ UNCHANGED <<now, users, sessions, dbSessions, nextToken, jams, managers, upvotes,
                   resp, issued, exchanged>>

\* DELETE /api/jams/:jam/winners/ up to line 938: the checks and the updateOne
ClearBegin(auth, jam, project) ==
    LET check == winnerRequestCheck(auth, jam, project)
    IN  /\ Len(pending) < MaxRequests
        /\ UNCHANGED <<now, users, sessions, dbSessions, nextToken, jams, managers, upvotes,
                       issued, exchanged>>
        /\ IF check.code # ""
           THEN /\ resp' = Response("clearWinner", NoBody, check.status, check.code, NoBody,
                                    check.threw)
                /\ pending' = Append(pending, [pc |-> "done"])
                /\ projects' = projects
           ELSE /\ projects' = setSelected(jam, project, FALSE)
                /\ pending' = Append(pending, [pc |-> "written", jam |-> jam,
                                               project |-> project])
                /\ resp' = resp

\* lines 908-910 and 940-942: the resolver, run here without interruption,
\* and the answer
WinnerResolve(r) ==
    LET computed == computeCommunitySelectedWinner(pending[r].jam)
    IN  /\ suspendedAt(r, "written")
        /\ projects' = computed.projects
        /\ pending' = [pending EXCEPT ![r] = [pc |-> "done"]]
        /\ resp' = IF computed.threw
                   THEN Response("winner", [request |-> r], 0, "noResponse", NoBody, TRUE)
                   ELSE Response("winner", [request |-> r], 200, "ok", NoBody, FALSE)
        /\ UNCHANGED <<now, users, sessions, dbSessions, nextToken, jams, managers, upvotes,
                       issued, exchanged>>

\* the project ids a winner request names: the two submitted ones and one
\* that is not submitted
SelectProjectIds == 1..3

\* Jam "j1" is closed and holds projects 1 and 2; root, the admin, has
\* upvoted project 1 and no winner is flagged yet.
SelectInit == ResolversInit

\* root selects and clears winners, ann (neither admin nor manager) tries
\* to, and resolver runs of other requests go on step by step
SelectNext ==
    \/ \E auth \in {AnnToken, RootToken}, project \in SelectProjectIds :
          SelectBegin(auth, "j1", project)
    \/ \E r \in DOMAIN pending : SelectSet(r)
    \/ \E project \in 1..2 : ClearBegin(RootToken, "j1", project)
    \/ \E r \in DOMAIN pending : WinnerResolve(r)
    \/ ResolveRead("j1")
    \/ \E r \in DOMAIN pending : ResolveClearAll(r)
    \/ \E r \in DOMAIN pending : ResolveClearOthers(r)
    \/ \E r \in DOMAIN pending : ResolveSetWinner(r)

SpecSelect == SelectInit /\ [][SelectNext]_vars

Selected(jam) == {i \in DOMAIN projects : projects[i].jam = jam /\ projects[i].selected}

\* C37: a winner-select request that names a project id not submitted to the
\* jam changes no project's selected flag.
C37_SelectMissingProjectKeepsFlags ==
    [][\A auth \in {AnnToken, RootToken} :
          SelectBegin(auth, "j1", 3) => Selected("j1")' = Selected("j1")]_vars

\* C38: whenever no request is in progress, at most one project of the jam
\* has selected = true.
C38_OneSelectedPerJam ==
    (\A r \in DOMAIN pending : pending[r].pc = "done")
    => Cardinality(Selected("j1")) <= 1

\* C39: whenever no request is in progress, no project has both
\* selected = true and selectedByTheCommunity = true.
C39_SelectedExcludesCommunity ==
    (\A r \in DOMAIN pending : pending[r].pc = "done")
    => \A i \in DOMAIN projects : ~(projects[i].selected /\ projects[i].selectedByTheCommunity)

---------------------------------------------------------------------------
(* Moving a jam's end date: PUT /api/jams/:jam step by step *)

\* lines 354-433 for an update that sends dates.end and a content body and
\* no name: the checks, Jams.findOne and, when the new end date is in the
\* future, the updateMany that clears the winners.  The reads and the
\* updateMany are taken at one instant; the document read here is the one
\* the update is merged into.
UpdateJamBegin(auth, jam, end) ==
    LET name == sessionName(auth)
        sessionUser == getUserData(name)
        body == [name |-> NoName, end |-> end, content |-> TRUE]
        Reject(status, code, threw) ==
            /\ resp' = Response("putJam", NoBody, status, code, NoBody, threw)
            /\ pending' = Append(pending, [pc |-> "done"])
            /\ projects' = projects
    IN  /\ Len(pending) < MaxRequests
        /\ UNCHANGED <<now, users, sessions, dbSessions, nextToken, jams, managers, upvotes,
                       issued, exchanged>>
        /\ IF auth = NoToken THEN Reject(401, "needAuth", FALSE)
           ELSE IF ~findSession(auth) THEN Reject(403, "invalidAuth", FALSE)
           ELSE IF ~sessionUser.present THEN Reject(0, "", TRUE)
           ELSE IF ~sessionUser.admin /\ ~isManager(name, jam)
           THEN Reject(403, "insufficientPermissions", FALSE)
           ELSE IF ~jams[jam].present THEN Reject(404, "jamNotFound", FALSE)
           ELSE /\ projects' = IF end # NoDate /\ end > now THEN clearWinners(jam) ELSE projects
                /\ pending' = Append(pending, [pc |-> "merged", jam |-> jam,
                                               updateQuery |-> mergedJam(jams[jam], body)])
                /\ resp' = resp

\* lines 434-446: Jams.findOneAndUpdate({slug}, {$set: updateQuery}) and the answer
UpdateJamWrite(r) ==
    LET jam == pending[r].jam
    IN  /\ suspendedAt(r, "merged")
        /\ pending' = [pending EXCEPT ![r] = [pc |-> "done"]]
        /\ IF jams[jam].present
           THEN /\ jams' = [jams EXCEPT ![jam] = pending[r].updateQuery]
                /\ resp' = Response("putJam", [request |-> r], 200, "updated",
                                    [slug |-> jam], FALSE)
           ELSE /\ jams' = jams
                /\ resp' = Response("putJam", [request |-> r], 404, "jamNotFound", NoBody, FALSE)
        /\ UNCHANGED <<now, users, sessions, dbSessions, nextToken, managers, projects, upvotes,
                       issued, exchanged>>

\* The clock reads 1.  Jam "j1" ended at 1; the resolver has flagged its
\* project 1, which has root's upvote.  Jam "j2" is not stored.
ReopenInit ==
    /\ now = 1
    /\ users = [n \in Names |-> [present |-> TRUE, admin |-> n = "root", banned |-> FALSE]]
    /\ sessions = UpvoteSessions
    /\ dbSessions = UpvoteSessions
    /\ nextToken = 1
    /\ jams = [s \in Slugs |->
                  IF s = "j1"
                  THEN [present |-> TRUE, name |-> "J1", dates |-> TRUE, start |-> 0, end |-> 1,
                        enableMystery |-> FALSE]
                  ELSE [present |-> FALSE]]
    /\ managers = <<>>
    /\ projects = <<[jam |-> "j1", project |-> 1, submitted |-> 0, submittedBy |-> "ann",
                     selected |-> FALSE, selectedByTheCommunity |-> TRUE],
                    [jam |-> "j1", project |-> 2, submitted |-> 1, submittedBy |-> "root",
                     selected |-> FALSE, selectedByTheCommunity |-> FALSE]>>
    /\ upvotes = <<[jam |-> "j1", project |-> 1, upvotedBy |-> "root"]>>
    /\ resp = InitResp
    /\ pending = NoPending
    /\ issued = {}
    /\ exchanged = [o \in Tokens |-> 0]

\* root moves the end date (to the past, to the future, or sends none), ann
\* is refused, and resolver runs of winners and projects reads go on
ReopenNext ==
    \/ \E auth \in {AnnToken, RootToken}, jam \in Slugs, end \in {NoDate, 0, MaxTime} :
          UpdateJamBegin(auth, jam, end)
    \/ \E r \in DOMAIN pending : UpdateJamWrite(r)
    \/ ResolveRead("j1")
    \/ \E r \in DOMAIN pending : ResolveClearAll(r)
    \/ \E r \in DOMAIN pending : ResolveClearOthers(r)
    \/ \E r \in DOMAIN pending : ResolveSetWinner(r)
    \/ RevokeUpvote(RootToken, "j1", 1)

SpecReopen == ReopenInit /\ [][ReopenNext]_vars

\* C40: whenever no request is in progress, a jam whose stored end date is
\* in the future has no project flagged selectedByTheCommunity.
C40_OpenJamHasNoCommunityWinner ==
    (\A r \in DOMAIN pending : pending[r].pc = "done")
    => \A j \in Slugs :
          (jams[j].present /\ jams[j].end # NoDate /\ jams[j].end > now) => Flagged(j) = {}

---------------------------------------------------------------------------
(* The session store step by step: start-up load, addSession, removeSession *)

\* lines 1261-1263: Sessions.find({}) is answered from the collection as it
\* is at that moment
LoadFind(r) ==
    /\ suspendedAt(r, "find")
    /\ pending' = [pending EXCEPT ![r] = [pc |-> "found", found |-> dbSessions]]
    /\ UNCHANGED <<now, users, sessions, dbSessions, nextToken, jams, managers, projects, upvotes,
                   resp, issued, exchanged>>

\* line 1262: sessions = <the awaited result>
LoadAssign(r) ==
    /\ suspendedAt(r, "found")
    /\ sessions' = pending[r].found
    /\ pending' = [pending EXCEPT ![r] = [pc |-> "done"]]
    /\ UNCHANGED <<now, users, dbSessions, nextToken, jams, managers, projects, upvotes,
                   resp, issued, exchanged>>

\* /auth/handle from line 1113 on, for a verified user: addSession pushes the
\* session and starts Sessions.create, the handler does not await addSession
\* and sends the redirect
IssueBegin(username) ==
    LET foundUser == getUserData(username)
        token == nextToken
        oneTimeToken == nextToken + 1
        session == [name |-> username, token |-> token, oneTimeToken |-> oneTimeToken]
    IN  /\ Len(pending) < MaxRequests
        /\ foundUser.present
        /\ UNCHANGED <<now, users, dbSessions, jams, managers, projects, upvotes, exchanged>>
        /\ IF loginRefused(foundUser)
           THEN /\ resp' = Response("authHandle", [outcome |-> "valid"], 302, "loginError2",
                                    NoBody, FALSE)
                /\ pending' = Append(pending, [pc |-> "done"])
                /\ UNCHANGED <<sessions, nextToken, issued>>
           ELSE /\ oneTimeToken <= 2 * MaxLogins
                /\ sessions' = addSessionMemory(token, username, oneTimeToken)
                /\ nextToken' = nextToken + 2
                /\ issued' = issued \cup {session}
                /\ pending' = Append(pending, [pc |-> "creating", session |-> session])
                /\ resp' = Response("authHandle", [outcome |-> "valid"], 302, "confirmLogin",
                                    [name |-> username, token |-> oneTimeToken], FALSE)

\* line 1283: Sessions.create stores the row
IssueStored(r) ==
    /\ suspendedAt(r, "creating")
    /\ dbSessions' = addSessionDurable(pending[r].session.token, pending[r].session.name,
                                       pending[r].session.oneTimeToken)
    /\ pending' = [pending EXCEPT ![r] = [pc |-> "done"]]
    /\ UNCHANGED <<now, users, sessions, nextToken, jams, managers, projects, upvotes,
                   resp, issued, exchanged>>

\* POST /auth/remove: removeSession filters the array and starts
\* Sessions.deleteOne, the handler does not await it and answers
RemoveBegin(token) ==
    /\ Len(pending) < MaxRequests
    /\ UNCHANGED <<now, users, dbSessions, nextToken, jams, managers, projects, upvotes,
                   issued, exchanged>>
    /\ IF token = NoToken
       THEN /\ resp' = Response("authRemove", [token |-> token], 400, "missingToken", NoBody, FALSE)
            /\ pending' = Append(pending, [pc |-> "done"])
            /\ sessions' = sessions
       ELSE IF ~findSession(token)
       THEN /\ resp' = Response("authRemove", NoBody, 400, "alreadyInvalid", NoBody, FALSE)
            /\ pending' = Append(pending, [pc |-> "done"])
            /\ sessions' = sessions
       ELSE /\ resp' = Response("authRemove", [token |-> token], 200, "ok",
                                [name |-> sessionName(token)], FALSE)
            /\ sessions' = removeSessionMemory(token)
            /\ pending' = Append(pending, [pc |-> "deleting", token |-> token])

\* line 1297: Sessions.deleteOne({token}) removes the row
RemoveDeleted(r) ==
    /\ suspendedAt(r, "deleting")
    /\ dbSessions' = removeSessionDurable(pending[r].token)
    /\ pending' = [pending EXCEPT ![r] = [pc |-> "done"]]
    /\ UNCHANGED <<now, users, sessions, nextToken, jams, managers, projects, upvotes,
                   resp, issued, exchanged>>

\* the start-up load, always the first entry of pending; the logouts are
\* those of the stored session
Loader == 1

\* The process has just started: the sessions array is empty (line 1259),
\* the load has been called and its query is in flight; the collection holds
\* the session of an earlier login of root.
StartupInit ==
    /\ now = 0
    /\ users = [n \in Names |-> [present |-> TRUE, admin |-> n = "root", banned |-> FALSE]]
    /\ sessions = <<>>
    /\ dbSessions = StoredSessions
    /\ nextToken = 1
    /\ jams = NoJams
    /\ managers = <<>>
    /\ projects = <<>>
    /\ upvotes = <<>>
    /\ resp = InitResp
    /\ pending = <<[pc |-> "find"]>>
    /\ issued = {}
    /\ exchanged = [t \in Tokens |-> 0]

StartupNext ==
    \/ LoadFind(Loader)
    \/ LoadAssign(Loader)
    \/ \E n \in Names : IssueBegin(n)
    \/ \E r \in DOMAIN pending : IssueStored(r)
    \/ \E t \in {NoToken, BogusToken, RootToken} : RemoveBegin(t)
    \/ \E r \in DOMAIN pending : RemoveDeleted(r)

SpecStartup == StartupInit /\ [][StartupNext]_vars

\* C27: during issue no token is findable through findSession while its
\* Session row is not yet stored durably, and the login redirect that carries
\* the one-time token is sent only after the session is persisted.
C27_WriteThroughOnIssue ==
    /\ [](\A r \in DOMAIN pending :
             suspendedAt(r, "creating") => ~findSession(pending[r].session.token))
    /\ [][(resp'.code = "confirmLogin" /\ nextToken' # nextToken)
          => \E k \in DOMAIN dbSessions' : dbSessions'[k].oneTimeToken = resp'.body.token]_vars

\* C28: once the start-up load has completed, every session issued while it
\* was in flight is findable by its token and by its one-time token (the
\* logouts of this specification never name an issued token).
C28_IssuedDuringLoadSurvives ==
    pending[Loader].pc = "done"
    => \A s \in issued :
          /\ findSession(s.token)
          /\ findSessionByOneTimeTokenIndex(s.oneTimeToken) # 0

---------------------------------------------------------------------------
(* Claims about the session store *)

\* C1: for every issued session, /auth/info answers 200 for its one-time
\* token at most once, a 200 answer carries that session's {name, token},
\* and any other answer to an exchange of an issued one-time token is 404
\* and is given only when the token was exchanged before or the session is
\* no longer in the store.
C1_OneTimeTokenExchangedOnce ==
    /\ \A o \in Tokens : exchanged[o] <= 1
    /\ (resp.op = "authInfo" /\ resp.status = 200) =>
          \E s \in issued : /\ s.oneTimeToken = resp.req.token
                            /\ resp.body = [name |-> s.name, token |-> s.token]
    /\ \A s \in issued :
          (resp.op = "authInfo" /\ resp.req.token = s.oneTimeToken /\ resp.status # 200) =>
             /\ resp.status = 404
             /\ exchanged[s.oneTimeToken] = 1 \/ ~findSession(s.token)

\* a second exchange of a one-time token that was exchanged before, while
\* its session is still in the store, has been answered 404
C1_Witness ==
    /\ resp.op = "authInfo" /\ resp.status = 404
    /\ \E s \in issued : /\ s.oneTimeToken = resp.req.token
                          /\ exchanged[s.oneTimeToken] = 1
                          /\ findSession(s.token)

\* C11: /auth/handle adds a session, to memory or to durable storage, only
\* when the verifier reports the code valid, the profile lookup returns a
\* username and the resolved user is not banned; every other outcome leaves
\* both session stores as they were.
C11_SessionOnlyForValidLogin ==
    [][resp'.op = "authHandle"
       => /\ (sessions' # sessions \/ dbSessions' # dbSessions)
                => /\ resp'.req.outcome = "found"
                   /\ resp'.code = "confirmLogin"
                   /\ ~users[resp'.body.name].banned
          /\ resp'.code # "confirmLogin" => (sessions' = sessions /\ dbSessions' = dbSessions)]_vars

\* the login of a banned user has been refused
C11_Witness ==
    /\ resp.op = "authHandle" /\ resp.req.outcome = "found" /\ resp.code = "loginError2"
    /\ \E n \in Names : users[n].present /\ users[n].banned

\* C13: a revoke request for a token that is not in the session store
\* leaves both session stores as they were and is answered 200.
C13_RevokeIdempotent ==
    [][\A t \in AuthTokens \ {NoToken} :
          (~findSession(t) /\ AuthRemove(t))
          => /\ resp'.status = 200
             /\ sessions' = sessions /\ dbSessions' = dbSessions]_vars

\* C14: after every completed operation the sessions of the in-memory index
\* are the Session rows of durable storage, with equal name, token and
\* oneTimeToken values.
C14_MemoryEqualsDurable ==
    {sessions[i] : i \in 1..Len(sessions)} = {dbSessions[i] : i \in 1..Len(dbSessions)}

\* C21: after a user deletion answered 200, no session of the deleted user
\* is in the in-memory index (so findSession rejects their tokens) nor in
\* durable storage.
C21_DeletedUserHasNoSession ==
    (resp.op = "deleteUser" /\ resp.status = 200)
    => /\ \A i \in 1..Len(sessions) : sessions[i].name # resp.req.name
       /\ \A i \in 1..Len(dbSessions) : dbSessions[i].name # resp.req.name

\* C2: while a user's banned flag is set, no session of that user is in the
\* in-memory index (so findSession rejects every old token of theirs) nor in
\* durable storage.
C2_BanRevokesAllSessions ==
    \A n \in Names :
        (users[n].present /\ users[n].banned) =>
            /\ \A i \in 1..Len(sessions) : sessions[i].name # n
            /\ \A i \in 1..Len(dbSessions) : dbSessions[i].name # n

=============================================================================
